---------------------------- MODULE Spec2Model ----------------------------
(***************************************************************************)
(* A model of the decision pipeline of the troubleshoot repository:        *)
(*   - the image-signatures analyzer (pkg/analyze/image_signatures.go):    *)
(*     evidence lookup, fact counting and the conditional outcome          *)
(*     evaluator with its three-token condition language;                  *)
(*   - the specification loader (pkg/loader/loader.go).                    *)
(*                                                                         *)
(* Strings whose characters the code inspects (condition strings) are      *)
(* sequences of one-character strings; strings the code only copies        *)
(* (messages, URIs, names) are TLA+ strings.                               *)
(***************************************************************************)
EXTENDS Integers, Sequences, FiniteSets, TLC

(***************************************************************************)
(* Bounds of the model.                                                    *)
(***************************************************************************)
\* longest outcome list an analyzer spec is given
MaxOutcomes == 2
\* most image entries in one collected artifact
MaxImages == 1
\* largest fact value handed to the condition comparator on its own
MaxCount == 2

(***************************************************************************)
(* Text helpers.                                                           *)
(***************************************************************************)
Digits == <<"0", "1", "2", "3", "4", "5", "6", "7", "8", "9">>

IsDigit(c) == \E d \in 1..10 : Digits[d] = c

DigitVal(c) == (CHOOSE d \in 1..10 : Digits[d] = c) - 1

\* unicode.IsSpace, restricted to the characters the model's strings use
IsSpace(c) == c \in {" ", "\t", "\n"}

RECURSIVE FieldsFrom(_, _, _)
FieldsFrom(s, i, cur) ==
    IF i > Len(s)
    THEN IF cur = <<>> THEN <<>> ELSE <<cur>>
    ELSE IF IsSpace(s[i])
         THEN IF cur = <<>>
              THEN FieldsFrom(s, i + 1, <<>>)
              ELSE <<cur>> \o FieldsFrom(s, i + 1, <<>>)
         ELSE FieldsFrom(s, i + 1, Append(cur, s[i]))

\* strings.Fields: the maximal runs of non-space characters, in order
Fields(s) == FieldsFrom(s, 1, <<>>)

RECURSIVE StripZeros(_)
StripZeros(ds) ==
    IF Len(ds) > 1 /\ ds[1] = "0" THEN StripZeros(Tail(ds)) ELSE ds

RECURSIVE DigitsValue(_, _)
DigitsValue(ds, acc) ==
    IF ds = <<>> THEN acc ELSE DigitsValue(Tail(ds), acc * 10 + DigitVal(ds[1]))

\* the decimal digits of 2^63 - 1, the largest Go int on a 64-bit build
MaxIntDigits ==
    <<"9", "2", "2", "3", "3", "7", "2", "0", "3", "6",
      "8", "5", "4", "7", "7", "5", "8", "0", "7">>

\* the decimal digits of 2^63, the magnitude of the smallest Go int
MinIntDigits ==
    <<"9", "2", "2", "3", "3", "7", "2", "0", "3", "6",
      "8", "5", "4", "7", "7", "5", "8", "0", "8">>

RECURSIVE DigitsLeq(_, _)
\* ds <= limit for two digit strings of the same length
DigitsLeq(ds, limit) ==
    IF ds = <<>> THEN TRUE
    ELSE IF DigitVal(ds[1]) < DigitVal(limit[1]) THEN TRUE
    ELSE IF DigitVal(ds[1]) > DigitVal(limit[1]) THEN FALSE
    ELSE DigitsLeq(Tail(ds), Tail(limit))

\* whether the magnitude ds (no leading zeros) fits a 64-bit int of that sign
InIntRange(ds, neg) ==
    \/ Len(ds) < Len(MaxIntDigits)
    \/ /\ Len(ds) = Len(MaxIntDigits)
       /\ DigitsLeq(ds, IF neg THEN MinIntDigits ELSE MaxIntDigits)

\* strconv.Atoi: an optional sign, then one or more decimal digits, in range
Atoi(tok) ==
    LET signed == tok /= <<>> /\ tok[1] \in {"+", "-"}
        neg == tok /= <<>> /\ tok[1] = "-"
        body == IF signed THEN Tail(tok) ELSE tok
        mag == StripZeros(body)
    IN  IF body = <<>> \/ \E i \in 1..Len(body) : ~IsDigit(body[i])
        THEN [ok |-> FALSE, val |-> 0]
        ELSE IF ~InIntRange(mag, neg)
        THEN [ok |-> FALSE, val |-> 0]
        ELSE [ok |-> TRUE,
              val |-> IF neg THEN 0 - DigitsValue(mag, 0) ELSE DigitsValue(mag, 0)]


(***************************************************************************)
(* Condition strings of the outcome language, character by character.      *)
(***************************************************************************)
SP == <<" ">>

FieldSigned == <<"s", "i", "g", "n", "e", "d">>
FieldUnsigned == <<"u", "n", "s", "i", "g", "n", "e", "d">>
FieldErrors == <<"e", "r", "r", "o", "r", "s">>
FieldBogus == <<"b", "o", "g", "u", "s">>

OpEq1 == <<"=">>
OpEq2 == <<"=", "=">>
OpEq3 == <<"=", "=", "=">>
OpNe1 == <<"!", "=">>
OpNe2 == <<"!", "=", "=">>
OpLt == <<"<">>
OpLe == <<"<", "=">>
OpGt == <<">">>
OpGe == <<">", "=">>
\* not an operator of the language
OpArrow == <<"=", ">">>

\* the operators compareSignatureConditional accepts
KnownOps == {OpEq1, OpEq2, OpEq3, OpNe1, OpNe2, OpLt, OpLe, OpGt, OpGe}

\* the field names compareSignatureConditional accepts
KnownFields == {FieldSigned, FieldUnsigned, FieldErrors}

Cond(f, op, v) == f \o SP \o op \o SP \o v

EmptyCond == <<>>
\* the single-word labels of TestAnalyzeImageSignatures_Analyze
CondSignaturesFound ==
    <<"s", "i", "g", "n", "a", "t", "u", "r", "e", "s", "-", "f", "o", "u", "n", "d">>
CondNoSignatures ==
    <<"n", "o", "-", "s", "i", "g", "n", "a", "t", "u", "r", "e", "s">>
CondErrorsGt0 == Cond(FieldErrors, OpGt, <<"0">>)
CondUnsignedGt0 == Cond(FieldUnsigned, OpGt, <<"0">>)
CondSignedGt0 == Cond(FieldSigned, OpGt, <<"0">>)
CondBogusGt0 == Cond(FieldBogus, OpGt, <<"0">>)
CondBadOperator == Cond(FieldSigned, OpArrow, <<"0">>)
CondBadValue == Cond(FieldUnsigned, OpGt, <<"m", "a", "n", "y">>)

(***************************************************************************)
(* The conditional outcome evaluator.                                      *)
(***************************************************************************)
NoErr == "nil"

\* compareSignatureConditional returns (match, err)
CmpRet(m, e) == [match |-> m, err |-> e]

\* faulty variant of fieldValue: an unknown field reads as 0 instead of failing
fieldValueUnknownIsZero(field, numSigned, numUnsigned, numErrors) ==
    IF field = FieldSigned THEN [ok |-> TRUE, val |-> numSigned]
    ELSE IF field = FieldUnsigned THEN [ok |-> TRUE, val |-> numUnsigned]
    ELSE IF field = FieldErrors THEN [ok |-> TRUE, val |-> numErrors]
    ELSE [ok |-> TRUE, val |-> 0]

\* the switch on the field name: (actualValue, known)
fieldValue(field, numSigned, numUnsigned, numErrors) ==
    IF field = FieldSigned THEN [ok |-> TRUE, val |-> numSigned]
    ELSE IF field = FieldUnsigned THEN [ok |-> TRUE, val |-> numUnsigned]
    ELSE IF field = FieldErrors THEN [ok |-> TRUE, val |-> numErrors]
    ELSE [ok |-> FALSE, val |-> 0]

\* faulty variant of parseExpectedValue: the error of strconv.Atoi is dropped
parseExpectedValueIgnoringError(valueStr) == [ok |-> TRUE, val |-> Atoi(valueStr).val]

\* expectedValue, err := strconv.Atoi(valueStr)
parseExpectedValue(valueStr) == Atoi(valueStr)

\* faulty variant of compareOperator: the orderings take the expected value on the left
compareOperatorSwapped(operator, actualValue, expectedValue) ==
    IF operator \in {OpEq1, OpEq2, OpEq3} THEN CmpRet(actualValue = expectedValue, NoErr)
    ELSE IF operator \in {OpNe1, OpNe2} THEN CmpRet(actualValue /= expectedValue, NoErr)
    ELSE IF operator = OpLt THEN CmpRet(expectedValue < actualValue, NoErr)
    ELSE IF operator = OpLe THEN CmpRet(expectedValue <= actualValue, NoErr)
    ELSE IF operator = OpGt THEN CmpRet(expectedValue > actualValue, NoErr)
    ELSE IF operator = OpGe THEN CmpRet(expectedValue >= actualValue, NoErr)
    ELSE CmpRet(FALSE, "unknown operator in conditional")

\* the switch on the operator
compareOperator(operator, actualValue, expectedValue) ==
    IF operator \in {OpEq1, OpEq2, OpEq3} THEN CmpRet(actualValue = expectedValue, NoErr)
    ELSE IF operator \in {OpNe1, OpNe2} THEN CmpRet(actualValue /= expectedValue, NoErr)
    ELSE IF operator = OpLt THEN CmpRet(actualValue < expectedValue, NoErr)
    ELSE IF operator = OpLe THEN CmpRet(actualValue <= expectedValue, NoErr)
    ELSE IF operator = OpGt THEN CmpRet(actualValue > expectedValue, NoErr)
    ELSE IF operator = OpGe THEN CmpRet(actualValue >= expectedValue, NoErr)
    ELSE CmpRet(FALSE, "unknown operator in conditional")

\* compareSignatureConditional from the token count check on
compareParts(parts, numSigned, numUnsigned, numErrors) ==
    IF Len(parts) /= 3 THEN CmpRet(FALSE, "unable to parse conditional")
    ELSE
    LET field == parts[1]
        operator == parts[2]
        valueStr == parts[3]
        actual == fieldValue(field, numSigned, numUnsigned, numErrors)
        expected == parseExpectedValue(valueStr)
    IN  IF ~actual.ok THEN CmpRet(FALSE, "unknown field in conditional")
        ELSE IF ~expected.ok THEN CmpRet(FALSE, "unable to parse expected value")
        ELSE compareOperator(operator, actual.val, expected.val)

\* faulty variant of compareSignatureConditional: the empty condition is parsed too
compareWithoutEmptyCase(conditional, numSigned, numUnsigned, numErrors) ==
    compareParts(Fields(conditional), numSigned, numUnsigned, numErrors)

compareSignatureConditional(conditional, numSigned, numUnsigned, numErrors) ==
    IF conditional = <<>> THEN CmpRet(TRUE, NoErr)
    ELSE compareParts(Fields(conditional), numSigned, numUnsigned, numErrors)

\* A message: a format and its arguments (authored messages have none).
Msg(text) == [fmt |-> text, args |-> <<>>]

DefaultPassFmt == "Analyzed %d images: %d signed, %d unsigned, %d errors"
NoDataMessage == Msg("No image signature data was collected")

\* *AnalyzeResult; Strict is false until Analyze sets it
Result(kind, message, uri) ==
    [IsPass |-> kind = "pass", IsWarn |-> kind = "warn", IsFail |-> kind = "fail",
     Message |-> message, URI |-> uri, Strict |-> FALSE]

\* (result, err) of the two analysis functions: result is <<>> for a nil pointer
Ret(r, e) == [result |-> r, err |-> e]

WrapCompareErr == "failed to compare signature conditional"

\* faulty variant of defaultPassResult: the total leaves the errors out
defaultPassResultWithoutErrors(numSigned, numUnsigned, numErrors) ==
    Result("pass",
           [fmt |-> DefaultPassFmt,
            args |-> <<numSigned + numUnsigned, numSigned, numUnsigned, numErrors>>],
           "")

\* the default verdict that ends evaluateSignatureOutcomes
defaultPassResult(numSigned, numUnsigned, numErrors) ==
    Result("pass",
           [fmt |-> DefaultPassFmt,
            args |-> <<numSigned + numUnsigned + numErrors,
                       numSigned, numUnsigned, numErrors>>],
           "")

RECURSIVE evaluateFrom(_, _, _, _, _)
\* the loop of evaluateSignatureOutcomes from outcome i on
evaluateFrom(outcomes, i, numSigned, numUnsigned, numErrors) ==
    IF i > Len(outcomes)
    THEN Ret(<<defaultPassResult(numSigned, numUnsigned, numErrors)>>, NoErr)
    ELSE
    LET outcome == outcomes[i]
        cmp(single) ==
            compareSignatureConditional(single[1].When, numSigned, numUnsigned, numErrors)
        verdict(kind, single) ==
            Ret(<<Result(kind, single[1].Message, single[1].URI)>>, NoErr)
    IN  IF outcome.Fail /= <<>> /\ cmp(outcome.Fail).err /= NoErr
        THEN Ret(<<>>, WrapCompareErr)
        ELSE IF outcome.Fail /= <<>> /\ cmp(outcome.Fail).match
        THEN verdict("fail", outcome.Fail)
        ELSE IF outcome.Warn /= <<>> /\ cmp(outcome.Warn).err /= NoErr
        THEN Ret(<<>>, WrapCompareErr)
        ELSE IF outcome.Warn /= <<>> /\ cmp(outcome.Warn).match
        THEN verdict("warn", outcome.Warn)
        ELSE IF outcome.Pass /= <<>> /\ cmp(outcome.Pass).err /= NoErr
        THEN Ret(<<>>, WrapCompareErr)
        ELSE IF outcome.Pass /= <<>> /\ cmp(outcome.Pass).match
        THEN verdict("pass", outcome.Pass)
        ELSE evaluateFrom(outcomes, i + 1, numSigned, numUnsigned, numErrors)

OnlyKind(outcomes, kind) ==
    [i \in 1..Len(outcomes) |->
        [Fail |-> IF kind = "fail" THEN outcomes[i].Fail ELSE <<>>,
         Warn |-> IF kind = "warn" THEN outcomes[i].Warn ELSE <<>>,
         Pass |-> IF kind = "pass" THEN outcomes[i].Pass ELSE <<>>]]

\* faulty variant of evaluateSignatureOutcomes: every Fail rule is tried before any
\* Warn rule, and every Warn rule before any Pass rule
evaluateByKindPriority(outcomes, numSigned, numUnsigned, numErrors) ==
    evaluateFrom(OnlyKind(outcomes, "fail") \o OnlyKind(outcomes, "warn")
                    \o OnlyKind(outcomes, "pass"),
                 1, numSigned, numUnsigned, numErrors)

evaluateSignatureOutcomes(outcomes, numSigned, numUnsigned, numErrors) ==
    evaluateFrom(outcomes, 1, numSigned, numUnsigned, numErrors)

(***************************************************************************)
(* Collected evidence and the fact table.                                  *)
(***************************************************************************)
\* a stored artifact: no file, zero bytes, bytes that are not JSON, or the
\* JSON encoding of an ImageSignaturesInfo
Absent == [tag |-> "absent", images |-> <<>>]
EmptyBytes == [tag |-> "empty", images |-> <<>>]
Garbage == [tag |-> "garbage", images |-> <<>>]
Json(images) == [tag |-> "json", images |-> images]

\* processSignatureData: (info, err); info is the Images list
processSignatureData(data) ==
    IF data.tag \in {"absent", "empty"} THEN [images |-> <<>>, err |-> "empty signature data"]
    ELSE IF data.tag = "garbage"
    THEN [images |-> <<>>, err |-> "failed to parse signature JSON"]
    ELSE [images |-> data.images, err |-> NoErr]

\* faulty variant of hasValidSignature: the error of a signature is not looked at
hasVerifiedSignature(imageData) ==
    \E k \in 1..Len(imageData.Signatures) : imageData.Signatures[k].Verified

hasValidSignature(imageData) ==
    \E k \in 1..Len(imageData.Signatures) :
        imageData.Signatures[k].Verified /\ imageData.Signatures[k].Error = ""

RECURSIVE countFrom(_, _, _)
\* the counting loop of analyzeImageSignatures from image i on
countFrom(images, i, acc) ==
    IF i > Len(images) THEN acc
    ELSE IF images[i].Error /= ""
    THEN countFrom(images, i + 1, [acc EXCEPT !.errors = @ + 1])
    ELSE IF hasValidSignature(images[i])
    THEN countFrom(images, i + 1, [acc EXCEPT !.signed = @ + 1])
    ELSE countFrom(images, i + 1, [acc EXCEPT !.unsigned = @ + 1])

countFacts(images) == countFrom(images, 1, [signed |-> 0, unsigned |-> 0, errors |-> 0])

RECURSIVE firstFailFrom(_, _)
\* the no-data loop of analyzeImageSignatures: the first outcome with a Fail entry
firstFailFrom(outcomes, i) ==
    IF i > Len(outcomes) THEN Result("fail", NoDataMessage, "")
    ELSE IF outcomes[i].Fail /= <<>>
    THEN Result("fail", outcomes[i].Fail[1].Message, outcomes[i].Fail[1].URI)
    ELSE firstFailFrom(outcomes, i + 1)

\* faulty variant of noDataResult: the authored Fail entries are not consulted
noDataResultFixedMessage(outcomes) == Result("fail", NoDataMessage, "")

noDataResult(outcomes) == firstFailFrom(outcomes, 1)

\* getFile of the evidence store: the bytes at a path, or an error
getFile(st, name) ==
    IF st.files[name].tag = "absent"
    THEN [data |-> Absent, err |-> "file not found"]
    ELSE [data |-> st.files[name], err |-> NoErr]

\* findFiles("image-signatures/*.json"): the stored artifacts, keyed by path
findFiles(st) == {n \in DOMAIN st.files : st.files[n].tag /= "absent"}

Lookup(data, err, findErr) == [data |-> data, err |-> err, findErr |-> findErr]

\* faulty variant of lookupEvidence: the collector name is not looked at
lookupEvidenceByGlobOnly(a, st) ==
    IF st.findErr
    THEN {Lookup(Absent, NoErr, "find failed")}
    ELSE IF findFiles(st) = {}
    THEN {Lookup(Absent, NoErr, NoErr)}
    ELSE {Lookup(st.files[n], NoErr, NoErr) : n \in findFiles(st)}

\* The lookup that opens analyzeImageSignatures: every (collectedData, err,
\* findErr) it can end with. With no collector name the artifact used is the
\* first one a range over the Go map of found files yields.
lookupEvidence(a, st) ==
    IF a.CollectorName /= ""
    THEN LET got == getFile(st, a.CollectorName)
         IN  {Lookup(got.data, got.err, NoErr)}
    ELSE IF st.findErr
    THEN {Lookup(Absent, NoErr, "find failed")}
    ELSE IF findFiles(st) = {}
    THEN {Lookup(Absent, NoErr, NoErr)}
    ELSE {Lookup(st.files[n], NoErr, NoErr) : n \in findFiles(st)}

\* analyzeImageSignatures, given what its lookup ended with
analyzeImageSignatures(a, l) ==
    IF l.findErr /= NoErr
    THEN Ret(<<>>, "failed to find image signatures files")
    ELSE IF l.err /= NoErr \/ l.data.tag \in {"absent", "empty"}
    THEN Ret(<<noDataResult(a.Outcomes)>>, NoErr)
    ELSE
    LET info == processSignatureData(l.data)
        facts == countFacts(info.images)
    IN  IF info.err /= NoErr
        THEN Ret(<<>>, "failed to unmarshal image signatures result")
        ELSE evaluateSignatureOutcomes(a.Outcomes, facts.signed, facts.unsigned, facts.errors)

\* multitype.BoolOrString.BoolOrDefaultFalse
BoolOrDefaultFalse(strict) == strict = "true"

\* faulty variant of AnalyzeReturn: the Strict flag is left as constructed
AnalyzeReturnStrictUnset(a, r) ==
    IF r.err /= NoErr
    THEN [results |-> <<>>, err |-> r.err]
    ELSE [results |-> <<r.result[1]>>, err |-> NoErr]

\* what Analyze returns for one value of analyzeImageSignatures
AnalyzeReturn(a, r) ==
    IF r.err /= NoErr
    THEN [results |-> <<>>, err |-> r.err]
    ELSE [results |-> <<[r.result[1] EXCEPT !.Strict = BoolOrDefaultFalse(a.Strict)]>>,
          err |-> NoErr]


(***************************************************************************)
(* The specification loader.                                               *)
(*                                                                         *)
(* A text is a sequence of tokens: a token is a YAML document or the       *)
(* "\n---\n" separator. The empty text is the empty string.                *)
(***************************************************************************)
Sep == [tok |-> "sep"]

\* a line break, and a line of three dashes without its line breaks
NL == [tok |-> "nl"]
Dashes == [tok |-> "dashes"]

Troubleshootv1beta2Kind == "troubleshoot.sh/v1beta2"
Troubleshootv1beta1Kind == "troubleshoot.replicated.com/v1beta1"

SupportBundleKey == "support-bundle-spec"
RedactorKey == "redactor-spec"
PreflightKey == "preflight.yaml"
PreflightKey2 == "preflight-spec"

\* the empty Go map
NoData == [k \in {} |-> <<>>]

RECURSIVE SplitFrom(_, _, _)
SplitFrom(text, i, cur) ==
    IF i > Len(text) THEN <<cur>>
    ELSE IF text[i] = Sep
    THEN <<cur>> \o SplitFrom(text, i + 1, <<>>)
    ELSE IF i + 2 <= Len(text) /\ SubSeq(text, i, i + 2) = <<NL, Dashes, NL>>
    THEN <<cur>> \o SplitFrom(text, i + 3, <<>>)
    ELSE SplitFrom(text, i + 1, Append(cur, text[i]))

\* util.SplitYAML: the texts between the separators, in textual order
SplitYAML(text) == SplitFrom(text, 1, <<>>)

\* what a YAML parser reads of a text: line breaks around a document are
\* not content
Content(rawDoc) == SelectSeq(rawDoc, LAMBDA t : t /= NL)

\* a text a YAML parser reads one mapping from
IsYamlMapping(rawDoc) ==
    /\ Len(Content(rawDoc)) = 1
    /\ Content(rawDoc)[1].tok = "doc"
    /\ Content(rawDoc)[1].yaml

\* yaml.Unmarshal of a document into parsedDoc: (parsed, err); a text of
\* line breaks only is the empty YAML document and leaves parsedDoc zero
UnmarshalHeader(rawDoc) ==
    IF Content(rawDoc) = <<>>
    THEN [Kind |-> "", APIVersion |-> "", err |-> NoErr]
    ELSE IF ~IsYamlMapping(rawDoc)
    THEN [Kind |-> "", APIVersion |-> "", err |-> "yaml: cannot unmarshal"]
    ELSE [Kind |-> Content(rawDoc)[1].kind, APIVersion |-> Content(rawDoc)[1].apiVersion,
          err |-> NoErr]

isSecret(parsedDocHead) == parsedDocHead.Kind = "Secret" /\ parsedDocHead.APIVersion = "v1"

isConfigMap(parsedDocHead) ==
    parsedDocHead.Kind = "ConfigMap" /\ parsedDocHead.APIVersion = "v1"

\* the kinds the scheme decodes into troubleshoot types, with the field of
\* TroubleshootKinds each is appended to
KindFields ==
    [Analyzer |-> "AnalyzersV1Beta2",
     Collector |-> "CollectorsV1Beta2",
     HostCollector |-> "HostCollectorsV1Beta2",
     HostPreflight |-> "HostPreflightsV1Beta2",
     Preflight |-> "PreflightsV1Beta2",
     Redactor |-> "RedactorsV1Beta2",
     RemoteCollector |-> "RemoteCollectorsV1Beta2",
     SupportBundle |-> "SupportBundlesV1Beta2"]

\* the fields of TroubleshootKinds, in declaration order
KindFieldOrder ==
    <<"AnalyzersV1Beta2", "CollectorsV1Beta2", "HostCollectorsV1Beta2",
      "HostPreflightsV1Beta2", "PreflightsV1Beta2", "RedactorsV1Beta2",
      "RemoteCollectorsV1Beta2", "SupportBundlesV1Beta2">>

KindFieldNames == {KindFieldOrder[i] : i \in 1..Len(KindFieldOrder)}

NewTroubleshootKinds == [f \in KindFieldNames |-> <<>>]

\* TroubleshootKinds.Len
KindsLen(kinds) ==
    Len(kinds.AnalyzersV1Beta2)
      + Len(kinds.CollectorsV1Beta2)
      + Len(kinds.HostCollectorsV1Beta2)
      + Len(kinds.HostPreflightsV1Beta2)
      + Len(kinds.PreflightsV1Beta2)
      + Len(kinds.RedactorsV1Beta2)
      + Len(kinds.RemoteCollectorsV1Beta2)
      + Len(kinds.SupportBundlesV1Beta2)

\* TroubleshootKinds.IsEmpty
IsEmpty(kinds) == KindsLen(kinds) = 0

\* faulty variant of Add: the entries of other are put first
AddPrepending(kinds, other) == [f \in KindFieldNames |-> other[f] \o kinds[f]]

\* faulty variant of Add: the remote collectors of other are left out
AddWithoutRemoteCollectors(kinds, other) ==
    [f \in KindFieldNames |->
        IF f = "RemoteCollectorsV1Beta2" THEN kinds[f] ELSE kinds[f] \o other[f]]

\* TroubleshootKinds.Add: the value of kinds after kinds.Add(other)
Add(kinds, other) ==
    [AnalyzersV1Beta2 |-> kinds.AnalyzersV1Beta2 \o other.AnalyzersV1Beta2,
     CollectorsV1Beta2 |-> kinds.CollectorsV1Beta2 \o other.CollectorsV1Beta2,
     HostCollectorsV1Beta2 |-> kinds.HostCollectorsV1Beta2 \o other.HostCollectorsV1Beta2,
     HostPreflightsV1Beta2 |-> kinds.HostPreflightsV1Beta2 \o other.HostPreflightsV1Beta2,
     PreflightsV1Beta2 |-> kinds.PreflightsV1Beta2 \o other.PreflightsV1Beta2,
     RedactorsV1Beta2 |-> kinds.RedactorsV1Beta2 \o other.RedactorsV1Beta2,
     RemoteCollectorsV1Beta2 |->
        kinds.RemoteCollectorsV1Beta2 \o other.RemoteCollectorsV1Beta2,
     SupportBundlesV1Beta2 |-> kinds.SupportBundlesV1Beta2 \o other.SupportBundlesV1Beta2]

\* yaml.Marshal of an entry of the aggregate: the text of a document with
\* the kind, the version and the metadata of the object, ended by a line break
Marshal(val) ==
    <<[tok |-> "doc", yaml |-> TRUE, kind |-> val.kind, apiVersion |-> val.apiVersion,
       name |-> val.name, data |-> NoData, stringData |-> NoData,
       converts |-> TRUE, decodes |-> TRUE],
      NL>>

RECURSIVE MarshalFrom(_, _, _)
\* the loops of ToYaml from entry count of field i on: the list of texts
MarshalFrom(kinds, i, count) ==
    IF i > Len(KindFieldOrder) THEN <<>>
    ELSE IF count > Len(kinds[KindFieldOrder[i]])
    THEN MarshalFrom(kinds, i + 1, 1)
    ELSE <<Marshal(kinds[KindFieldOrder[i]][count])>> \o MarshalFrom(kinds, i, count + 1)

RECURSIVE Join(_, _)
\* strings.Join
Join(list, sep) ==
    IF list = <<>> THEN <<>>
    ELSE IF Len(list) = 1 THEN list[1]
    ELSE list[1] \o sep \o Join(Tail(list), sep)

\* faulty variant of ToYaml: the documents are joined without the dashes
ToYamlWithoutDashes(kinds) ==
    [yaml |-> Join(MarshalFrom(kinds, 1, 1), <<NL>>), err |-> NoErr]

\* TroubleshootKinds.ToYaml: (string, error)
ToYaml(kinds) ==
    [yaml |-> Join(MarshalFrom(kinds, 1, 1), <<Dashes, NL>>), err |-> NoErr]

\* kinds the scheme registers in the troubleshoot group besides the eight
\* that TroubleshootKinds holds
OtherRegisteredKinds == {"SupportBundleList"}

\* decoder.Decode of a document: (obj, err); obj.type names the Go type
Decode(rawDoc) ==
    IF ~IsYamlMapping(rawDoc) \/ ~Content(rawDoc)[1].decodes
    THEN [type |-> "", doc |-> <<>>, err |-> "couldn't decode"]
    ELSE LET d == Content(rawDoc)[1]
         IN  IF d.apiVersion = "v1" /\ d.kind \in {"Secret", "ConfigMap"}
             THEN [type |-> d.kind, doc |-> <<d>>, err |-> NoErr]
             ELSE IF d.apiVersion \in {Troubleshootv1beta2Kind, Troubleshootv1beta1Kind}
                     /\ d.kind \in DOMAIN KindFields \cup OtherRegisteredKinds
             THEN [type |-> d.kind, doc |-> <<d>>, err |-> NoErr]
             ELSE [type |-> "", doc |-> <<>>, err |-> "no kind is registered"]

\* docrewrite.ConvertToV1Beta2: the document at the canonical version, or an error
ConvertToV1Beta2(doc) ==
    IF ~IsYamlMapping(doc) \/ ~Content(doc)[1].converts
    THEN [converted |-> <<>>, err |-> "cannot convert"]
    ELSE IF Content(doc)[1].apiVersion = Troubleshootv1beta2Kind
    THEN [converted |-> doc, err |-> NoErr]
    ELSE IF Content(doc)[1].apiVersion = Troubleshootv1beta1Kind
    THEN [converted |-> <<[Content(doc)[1] EXCEPT !.apiVersion = Troubleshootv1beta2Kind]>>,
          err |-> NoErr]
    ELSE [converted |-> <<>>, err |-> "unknown apiVersion"]

\* faulty variant of specsUnder: only the documents of a troubleshoot version
\* are kept
specsUnderClassified(m, key) ==
    IF key \in DOMAIN m
    THEN SelectSeq(SplitYAML(m[key]),
                   LAMBDA rawDoc :
                       /\ IsYamlMapping(rawDoc)
                       /\ Content(rawDoc)[1].apiVersion
                             \in {Troubleshootv1beta2Kind, Troubleshootv1beta1Kind})
    ELSE <<>>

\* the texts under one key of a Go map, split, or nothing when the key is absent
specsUnder(m, key) == IF key \in DOMAIN m THEN SplitYAML(m[key]) ELSE <<>>

getSpecFromConfigMap(cm) ==
    specsUnder(cm.data, SupportBundleKey)
      \o specsUnder(cm.data, RedactorKey)
      \o specsUnder(cm.data, PreflightKey)
      \o specsUnder(cm.data, PreflightKey2)

\* faulty variant of getSpecFromSecret: the extraction stops at the first
\* recognized key
getSpecFromSecretFirstKeyOnly(secret) == specsUnder(secret.data, SupportBundleKey)

\* faulty variant of getSpecFromSecret: the keys are visited one at a time,
\* data before stringData for each
getSpecFromSecretKeyByKey(secret) ==
    specsUnder(secret.data, SupportBundleKey)
      \o specsUnder(secret.stringData, SupportBundleKey)
      \o specsUnder(secret.data, RedactorKey)
      \o specsUnder(secret.stringData, RedactorKey)
      \o specsUnder(secret.data, PreflightKey)
      \o specsUnder(secret.stringData, PreflightKey)
      \o specsUnder(secret.data, PreflightKey2)
      \o specsUnder(secret.stringData, PreflightKey2)

\* faulty variant of getSpecFromSecret: a key of stringData overrides the same
\* key of data
getSpecFromSecretStringDataWins(secret) ==
    LET merged == secret.stringData @@ secret.data
    IN  specsUnder(merged, SupportBundleKey)
          \o specsUnder(merged, RedactorKey)
          \o specsUnder(merged, PreflightKey)
          \o specsUnder(merged, PreflightKey2)

getSpecFromSecret(secret) ==
    specsUnder(secret.data, SupportBundleKey)
      \o specsUnder(secret.data, RedactorKey)
      \o specsUnder(secret.data, PreflightKey)
      \o specsUnder(secret.data, PreflightKey2)
      \o specsUnder(secret.stringData, SupportBundleKey)
      \o specsUnder(secret.stringData, RedactorKey)
      \o specsUnder(secret.stringData, PreflightKey)
      \o specsUnder(secret.stringData, PreflightKey2)

\* (kinds, err) of the load functions: kinds is <<>> for a nil pointer; an
\* error carries the text of the document it wraps
LoadRet(kinds, err, doc) == [kinds |-> kinds, err |-> err, doc |-> doc]

RECURSIVE loadDocsFromSkippingUnknown(_, _, _, _)
\* faulty variant of loadDocsFrom: in non-strict mode an object of a type
\* outside the eight is skipped
loadDocsFromSkippingUnknown(strict, splitdocs, i, kinds) ==
    IF i > Len(splitdocs) THEN LoadRet(<<kinds>>, NoErr, <<>>)
    ELSE
    LET doc == splitdocs[i]
        conv == ConvertToV1Beta2(doc)
        dec == Decode(conv.converted)
        next(k) == loadDocsFromSkippingUnknown(strict, splitdocs, i + 1, k)
    IN  IF conv.err /= NoErr
        THEN IF ~strict THEN next(kinds)
             ELSE LoadRet(<<>>, "failed to convert doc to troubleshoot.sh/v1beta2 kind", doc)
        ELSE IF dec.err /= NoErr
        THEN IF ~strict THEN next(kinds)
             ELSE LoadRet(<<>>, "failed to decode", conv.converted)
        ELSE IF dec.type \in DOMAIN KindFields
        THEN next([kinds EXCEPT ![KindFields[dec.type]] = Append(@, dec.doc[1])])
        ELSE IF ~strict THEN next(kinds)
        ELSE LoadRet(<<>>, "unknown troubleshoot kind", <<>>)

RECURSIVE loadDocsFrom(_, _, _, _)
\* the loop of loadFromSplitDocs from document i on
loadDocsFrom(strict, splitdocs, i, kinds) ==
    IF i > Len(splitdocs) THEN LoadRet(<<kinds>>, NoErr, <<>>)
    ELSE
    LET doc == splitdocs[i]
        conv == ConvertToV1Beta2(doc)
        dec == Decode(conv.converted)
    IN  IF conv.err /= NoErr
        THEN IF ~strict
             THEN loadDocsFrom(strict, splitdocs, i + 1, kinds)
             ELSE LoadRet(<<>>, "failed to convert doc to troubleshoot.sh/v1beta2 kind", doc)
        ELSE IF dec.err /= NoErr
        THEN IF ~strict
             THEN loadDocsFrom(strict, splitdocs, i + 1, kinds)
             ELSE LoadRet(<<>>, "failed to decode", conv.converted)
        ELSE IF dec.type \in DOMAIN KindFields
        THEN loadDocsFrom(strict, splitdocs, i + 1,
                          [kinds EXCEPT ![KindFields[dec.type]] = Append(@, dec.doc[1])])
        ELSE LoadRet(<<>>, "unknown troubleshoot kind", <<>>)

\* faulty variant of loadFromSplitDocs: a document that fails is fatal in
\* non-strict mode too
loadFromSplitDocsStrict(strict, splitdocs) ==
    loadDocsFrom(TRUE, splitdocs, 1, NewTroubleshootKinds)

\* faulty variant of loadFromSplitDocs: a document that fails is skipped in
\* strict mode too
loadFromSplitDocsLenient(strict, splitdocs) ==
    loadDocsFrom(FALSE, splitdocs, 1, NewTroubleshootKinds)

loadFromSplitDocs(strict, splitdocs) ==
    loadDocsFrom(strict, splitdocs, 1, NewTroubleshootKinds)

RECURSIVE splitAll(_)
\* step 1 of loadFromStrings: every raw spec split, in order
splitAll(rawSpecs) ==
    IF rawSpecs = <<>> THEN <<>>
    ELSE SplitYAML(Head(rawSpecs)) \o splitAll(Tail(rawSpecs))

\* faulty variant of isTroubleshootKind: every document is taken for a
\* specification document
isTroubleshootKindAnyVersion(parsedDocHead) == TRUE

\* the test of the second branch of the classifier
isTroubleshootKind(parsedDocHead) ==
    \/ parsedDocHead.APIVersion = Troubleshootv1beta2Kind
    \/ parsedDocHead.APIVersion = Troubleshootv1beta1Kind

RECURSIVE classifyFrom(_, _, _, _)
\* step 2 of loadFromStrings from document i on: (splitdocs, err, doc)
classifyFrom(strict, multiRawDocs, i, splitdocs) ==
    IF i > Len(multiRawDocs) THEN [splitdocs |-> splitdocs, err |-> NoErr, doc |-> <<>>]
    ELSE
    LET rawDoc == multiRawDocs[i]
        parsed == UnmarshalHeader(rawDoc)
        obj == Decode(rawDoc)
        next(docs) == classifyFrom(strict, multiRawDocs, i + 1, docs)
    IN  IF rawDoc = <<>> THEN next(splitdocs)
        ELSE IF parsed.err /= NoErr
        THEN IF ~strict THEN next(splitdocs)
             ELSE [splitdocs |-> <<>>, err |-> "failed to parse yaml", doc |-> rawDoc]
        ELSE IF isConfigMap(parsed) \/ isSecret(parsed)
        THEN IF obj.err /= NoErr
             THEN IF ~strict THEN next(splitdocs)
                  ELSE [splitdocs |-> <<>>, err |-> "failed to decode raw spec", doc |-> rawDoc]
             ELSE IF obj.type = "ConfigMap"
             THEN next(splitdocs \o getSpecFromConfigMap(obj.doc[1]))
             ELSE IF obj.type = "Secret"
             THEN next(splitdocs \o getSpecFromSecret(obj.doc[1]))
             ELSE [splitdocs |-> <<>>, err |-> "type is not a Secret or ConfigMap",
                   doc |-> <<>>]
        ELSE IF isTroubleshootKind(parsed)
        THEN next(Append(splitdocs, rawDoc))
        ELSE next(splitdocs)

loadFromStrings(strict, rawSpecs) ==
    LET c == classifyFrom(strict, splitAll(rawSpecs), 1, <<>>)
    IN  IF c.err /= NoErr THEN LoadRet(<<>>, c.err, c.doc)
        ELSE loadFromSplitDocs(strict, c.splitdocs)

\* faulty variant of LoadSpecs: RawSpec is loaded before the entries of RawSpecs
LoadSpecsRawSpecFirst(o) == loadFromStrings(o.Strict, <<o.RawSpec>> \o o.RawSpecs)

LoadSpecs(o) == loadFromStrings(o.Strict, Append(o.RawSpecs, o.RawSpec))

(***************************************************************************)
(* State.                                                                  *)
(***************************************************************************)
VARIABLES
    entry,      \* the entry point this run exercises
    analyzer,   \* the ImageSignaturesAnalyze spec of an AnalyzeImageSignatures
    store,      \* the evidence store behind getFile and findFiles
    ret,        \* what Analyze returned, once it has been called
    cmpIn,      \* arguments of a direct compareSignatureConditional call
    cmpOut,     \* what that call returned
    opt,        \* the LoadOptions of a LoadSpecs call
    loaded,     \* what LoadSpecs returned, once it has been called
    trip,       \* ToYaml of the aggregate returned and what loading it returned
    heap,       \* the aggregates Add is called on, and the calls made
    collector,  \* a CollectImageSignatures and the cluster behind it
    collected,  \* what Collect returned, once it has been called
    race,       \* two concurrent LoadSpecs calls on one caller's RawSpecs list
    authCall    \* a direct call of getImageAuthConfigForSignatures

vars ==
    <<entry, analyzer, store, ret, cmpIn, cmpOut, opt, loaded, trip, heap, collector,
      collected, race, authCall>>

(***************************************************************************)
(* Inputs of the analyzer.                                                 *)
(***************************************************************************)
SingleOutcome(when, message, uri) == [When |-> when, Message |-> Msg(message), URI |-> uri]

FailOutcome(when, message, uri) ==
    [Fail |-> <<SingleOutcome(when, message, uri)>>, Warn |-> <<>>, Pass |-> <<>>]
WarnOutcome(when, message, uri) ==
    [Fail |-> <<>>, Warn |-> <<SingleOutcome(when, message, uri)>>, Pass |-> <<>>]
PassOutcome(when, message, uri) ==
    [Fail |-> <<>>, Warn |-> <<>>, Pass |-> <<SingleOutcome(when, message, uri)>>]

\* the two outcomes of TestAnalyzeImageSignatures_Analyze
TestPassOutcome == PassOutcome(CondSignaturesFound, "Image signatures found and verified", "")
TestFailOutcome == FailOutcome(CondNoSignatures, "No signatures found for images", "")

\* an outcome with two entries: Fail is tried before Pass
TwoEntryOutcome ==
    [Fail |-> <<SingleOutcome(CondUnsignedGt0, "unsigned images", "")>>,
     Warn |-> <<>>,
     Pass |-> <<SingleOutcome(EmptyCond, "nothing unsigned", "https://pass2")>>]

FailErrorsOutcome == FailOutcome(CondErrorsGt0, "errors while checking", "https://fail")
WarnUnsignedOutcome == WarnOutcome(CondUnsignedGt0, "some images unsigned", "https://warn")
PassSignedOutcome == PassOutcome(CondSignedGt0, "images are signed", "https://pass")
PassAlwaysOutcome == PassOutcome(EmptyCond, "unconditional pass", "")
WarnBogusOutcome == WarnOutcome(CondBogusGt0, "bogus field", "")
FailBadOperatorOutcome == FailOutcome(CondBadOperator, "bad operator", "")
WarnBadValueOutcome == WarnOutcome(CondBadValue, "bad value", "")

\* the outcomes analyzer specs are built from
OutcomePool ==
    { FailErrorsOutcome, WarnUnsignedOutcome, PassSignedOutcome, PassAlwaysOutcome,
      WarnBogusOutcome, FailBadOperatorOutcome, WarnBadValueOutcome,
      TestPassOutcome, TestFailOutcome, TwoEntryOutcome }

OutcomeLists == UNION {[1..n -> OutcomePool] : n \in 0..MaxOutcomes}

Sig(verified, err) == [Verified |-> verified, Signature |-> "sig", Error |-> err]

ImageData(image, sigs, err) == [Image |-> image, Signatures |-> sigs, Error |-> err]

SignedImage == ImageData("nginx:latest", <<Sig(TRUE, "")>>, "")
UnsignedImage ==
    ImageData("nginx:latest", <<Sig(FALSE, "no signatures found for this image")>>, "")
ErrorImage == ImageData("broken", <<>>, "registry unreachable")

\* entries whose image error and signatures disagree, or that have no or
\* several signatures
ErrorWithVerifiedImage == ImageData("mixed", <<Sig(TRUE, "")>>, "registry unreachable")
NoSignaturesImage == ImageData("bare", <<>>, "")
VerifiedWithErrorImage == ImageData("odd", <<Sig(TRUE, "certificate expired")>>, "")
TwoSignaturesImage == ImageData("two", <<Sig(FALSE, "key mismatch"), Sig(TRUE, "")>>, "")

\* most entries of an artifact read by an analyzer of one rule at most
MaxFactImages == 2

\* the image entries collected artifacts are built from
ImagePool == {SignedImage, UnsignedImage, ErrorImage}

ImageLists == UNION {[1..n -> ImagePool] : n \in 0..MaxImages}

Artifacts == {Absent, EmptyBytes, Garbage} \cup {Json(l) : l \in ImageLists}

\* the artifact names under image-signatures/
ArtifactNames == {"a", "b"}

\* a second artifact, whose verdicts differ from those of most first ones
OtherArtifact == Json(<<ImageData("other", <<Sig(TRUE, "")>>, "")>>)

\* Stores: a named lookup never calls findFiles, so the error of findFiles
\* varies only for analyzers that glob.
Stores(collectorName) ==
    { [files |-> [n \in ArtifactNames |-> IF n = "a" THEN x ELSE y], findErr |-> fe] :
        x \in Artifacts,
        y \in {Absent, OtherArtifact},
        fe \in IF collectorName = "" THEN BOOLEAN ELSE {FALSE} }

\* the entries the fact table is checked on
FactImagePool ==
    ImagePool \cup { ErrorWithVerifiedImage, NoSignaturesImage, VerifiedWithErrorImage,
                     TwoSignaturesImage }

FactImageLists == UNION {[1..n -> FactImagePool] : n \in 0..MaxFactImages}

\* the outcome lists of no rule or of one outcome
ShortOutcomeLists == {<<>>} \cup {<<o>> : o \in OutcomePool}

NotCalled ==
    [called |-> FALSE, used |-> Lookup(Absent, NoErr, NoErr), results |-> <<>>, err |-> NoErr]

IdleAnalyzer == [CollectorName |-> "", Strict |-> "unset", Outcomes |-> <<>>]
IdleStore == [files |-> [n \in ArtifactNames |-> Absent], findErr |-> FALSE]

(***************************************************************************)
(* Inputs of a direct call of the condition comparator.                    *)
(***************************************************************************)
\* value tokens, each with the integer it denotes when it denotes one
Literal(text, isInt, val) == [text |-> text, isInt |-> isInt, val |-> val]

HugeDigits == MinIntDigits \o <<"0">>

ValuePool ==
    { Literal(<<"0">>, TRUE, 0), Literal(<<"1">>, TRUE, 1), Literal(<<"2">>, TRUE, 2),
      Literal(<<"-", "1">>, TRUE, 0 - 1), Literal(<<"+", "1">>, TRUE, 1),
      Literal(<<"0", "2">>, TRUE, 2),
      Literal(<<"m", "a", "n", "y">>, FALSE, 0), Literal(<<"1", ".", "5">>, FALSE, 0),
      Literal(<<"-">>, FALSE, 0), Literal(HugeDigits, FALSE, 0) }

FieldPool == {FieldSigned, FieldUnsigned, FieldErrors, FieldBogus}

OpPool == KnownOps \cup {OpArrow}

\* the whitespace put between two tokens
SepPool == {<<" ">>, <<"\t", " ">>}

\* three-token conditions, with the tokens they were written from
ThreeTokenInputs ==
    { [conditional |-> f \o sep \o op \o sep \o v.text, tokens |-> <<f, op, v>>] :
        f \in FieldPool, op \in OpPool, v \in ValuePool, sep \in SepPool }

\* conditions that do not have three tokens
OtherInputs ==
    { [conditional |-> c, tokens |-> <<>>] :
        c \in { EmptyCond, <<" ">>, CondSignaturesFound, CondNoSignatures,
                FieldSigned \o OpGt \o <<"0">>,
                FieldSigned \o SP \o OpGt,
                CondSignedGt0 \o SP \o <<"1">> } }

CompareInputs ==
    { [conditional |-> i.conditional, tokens |-> i.tokens,
       numSigned |-> s, numUnsigned |-> u, numErrors |-> e] :
        i \in ThreeTokenInputs \cup OtherInputs,
        s \in 0..MaxCount, u \in 0..MaxCount, e \in 0..MaxCount }

IdleCmpIn ==
    [conditional |-> <<>>, tokens |-> <<>>, numSigned |-> 0, numUnsigned |-> 0, numErrors |-> 0]
IdleCmpOut == [called |-> FALSE, match |-> FALSE, err |-> NoErr]

(***************************************************************************)
(* Inputs of the loader.                                                   *)
(***************************************************************************)
\* A document. name is its metadata.name; data and stringData are the maps
\* of a wrapper; yaml, converts and decodes say whether the text is YAML,
\* whether the canonicalizer accepts it and whether the typed decoder does.
Document(kind, apiVersion) ==
    [tok |-> "doc", yaml |-> TRUE, kind |-> kind, apiVersion |-> apiVersion,
     name |-> <<>>, data |-> NoData, stringData |-> NoData,
     converts |-> TRUE, decodes |-> TRUE]

SupportBundleDoc == Document("SupportBundle", Troubleshootv1beta2Kind)
PreflightDoc == Document("Preflight", Troubleshootv1beta2Kind)
RedactorDoc == Document("Redactor", Troubleshootv1beta2Kind)
LegacyPreflightDoc == Document("Preflight", Troubleshootv1beta1Kind)
ForeignDoc == Document("Deployment", "apps/v1")
BadYamlDoc == [Document("", "") EXCEPT !.yaml = FALSE]

\* the text of no document at all
EmptyDoc == [tok |-> "empty"]

\* a Secret with two keys in data and a two-document payload in stringData
SecretDoc ==
    [Document("Secret", "v1") EXCEPT
        !.data = (SupportBundleKey :> <<SupportBundleDoc>>)
                    @@ (RedactorKey :> <<RedactorDoc>>),
        !.stringData = (PreflightKey :> <<PreflightDoc, Sep, LegacyPreflightDoc>>)]

ConfigMapDoc ==
    [Document("ConfigMap", "v1") EXCEPT
        !.data = (PreflightKey :> <<PreflightDoc>>)
                    @@ (SupportBundleKey :> <<SupportBundleDoc, Sep, BadYamlDoc>>)
                    @@ (RedactorKey :> <<RedactorDoc>>)]

\* a Secret with the legacy preflight key in data and the current preflight
\* key in stringData
PreflightSecretDoc ==
    [Document("Secret", "v1") EXCEPT
        !.data = (PreflightKey2 :> <<LegacyPreflightDoc>>),
        !.stringData = (PreflightKey :> <<PreflightDoc>>)]

\* a Secret with the preflight key in data and in stringData
BothMapsSecretDoc ==
    [Document("Secret", "v1") EXCEPT
        !.data = (PreflightKey :> <<PreflightDoc>>),
        !.stringData = (PreflightKey :> <<LegacyPreflightDoc, Sep, PreflightDoc>>)]

\* a Secret written in the payload of a wrapper
NestedSecretDoc ==
    [Document("Secret", "v1") EXCEPT
        !.data = (PreflightKey :>
                    <<[PreflightDoc EXCEPT !.name = <<0, "nested", PreflightKey, 1>>]>>)]

\* a ConfigMap whose payloads hold a foreign document before a specification,
\* and a Secret
NestingConfigMapDoc ==
    [Document("ConfigMap", "v1") EXCEPT
        !.data = (SupportBundleKey :> <<ForeignDoc, Sep, SupportBundleDoc>>)
                    @@ (RedactorKey :> <<NestedSecretDoc>>)]

\* a document whose kind is Secret in a group that is not the core group
ForeignSecretDoc == Document("Secret", "apps/v1")

\* a Secret the typed decoder rejects
UndecodableSecretDoc == [Document("Secret", "v1") EXCEPT !.decodes = FALSE]

\* a legacy document the canonicalizer rejects
UnconvertibleDoc == [LegacyPreflightDoc EXCEPT !.converts = FALSE]

\* a legacy document the typed decoder rejects once it is canonical
UndecodableLegacyDoc == [LegacyPreflightDoc EXCEPT !.decodes = FALSE]

\* a document of the troubleshoot group whose kind the scheme does not know
UnknownKindDoc == Document("Foo", Troubleshootv1beta2Kind)

\* a document of the troubleshoot group that decodes to a registered type
\* outside the eight of TroubleshootKinds
ListKindDoc == Document("SupportBundleList", Troubleshootv1beta2Kind)

\* a ConfigMap whose payload holds a document of a registered type outside
\* the eight
ListKindConfigMapDoc ==
    [Document("ConfigMap", "v1") EXCEPT !.data = (PreflightKey :> <<ListKindDoc>>)]

\* the documents input texts are written from
DocPool ==
    { SupportBundleDoc, PreflightDoc, LegacyPreflightDoc, ForeignDoc, BadYamlDoc,
      EmptyDoc, SecretDoc, ConfigMapDoc, PreflightSecretDoc, UndecodableSecretDoc,
      UnconvertibleDoc, UndecodableLegacyDoc, UnknownKindDoc, ListKindDoc,
      ForeignSecretDoc, BothMapsSecretDoc, NestingConfigMapDoc, ListKindConfigMapDoc }

\* most documents in the input of one LoadSpecs call
MaxDocs == 3

\* Names are positions: the k-th top-level document of the input is named
\* <<k, "", "", 0>>, and the i-th token of the payload under key of map m of
\* the k-th top-level document is named <<k, m, key, i>>.
StampPayload(text, k, m, key) ==
    [i \in 1..Len(text) |->
        IF text[i] = Sep THEN Sep ELSE [text[i] EXCEPT !.name = <<k, m, key, i>>]]

StampMap(map, k, m) == [key \in DOMAIN map |-> StampPayload(map[key], k, m, key)]

\* the text of the k-th top-level document
DocText(d, k) ==
    IF d = EmptyDoc THEN <<>>
    ELSE <<[d EXCEPT !.name = <<k, "", "", 0>>,
                     !.data = StampMap(d.data, k, "data"),
                     !.stringData = StampMap(d.stringData, k, "stringData")]>>

RECURSIVE TextsFrom(_, _, _, _)
\* The texts written from docs[k..]: cuts[k] says whether document k + 1
\* follows document k after a separator or opens the next text; cur is the
\* text being written.
TextsFrom(docs, cuts, k, cur) ==
    IF k > Len(docs) THEN <<cur>>
    ELSE LET withDoc == cur \o DocText(docs[k], k)
         IN  IF k = Len(docs) THEN <<withDoc>>
             ELSE IF cuts[k] = "sep"
             THEN TextsFrom(docs, cuts, k + 1, withDoc \o <<Sep>>)
             ELSE <<withDoc>> \o TextsFrom(docs, cuts, k + 1, <<>>)

Front(seq) == SubSeq(seq, 1, Len(seq) - 1)

\* LoadOptions over the texts: the last text is RawSpec when lastIsRawSpec,
\* else RawSpec is left empty
Options(texts, lastIsRawSpec, strict) ==
    IF lastIsRawSpec
    THEN [RawSpecs |-> Front(texts), RawSpec |-> texts[Len(texts)], Strict |-> strict]
    ELSE [RawSpecs |-> texts, RawSpec |-> <<>>, Strict |-> strict]

\* the documents the longest inputs are written from
CorePool == {SupportBundleDoc, PreflightDoc, BadYamlDoc, SecretDoc, UnconvertibleDoc}

\* the batches of n documents: every document for the shorter inputs, the
\* core documents for the longest
Batches(n) == IF n < MaxDocs THEN [1..n -> DocPool] ELSE [1..n -> CorePool]

IdleOpt == [RawSpecs |-> <<>>, RawSpec |-> <<>>, Strict |-> FALSE]
NotLoaded == [called |-> FALSE] @@ LoadRet(<<>>, NoErr, <<>>)

(***************************************************************************)
(* The image signature collector.                                          *)
(*                                                                         *)
(* An image name and the message of an error are sequences of pieces of    *)
(* text, cut so that every text the code searches for is a run of pieces.  *)
(***************************************************************************)
\* strings.Contains
Contains(str, substr) ==
    \E i \in 1..(Len(str) - Len(substr) + 1) :
       SubSeq(str, i, i + Len(substr) - 1) = substr

\* strings.TrimSpace(image) == ""
IsBlank(image) == \A i \in 1..Len(image) : image[i] \in {" ", "\t"}

\* a Go error: nil, or an error with a message
NilError == [nil |-> TRUE, msg |-> <<>>]
NewError(msg) == [nil |-> FALSE, msg |-> msg]

\* errors.Wrap
Wrap(err, msg) == NewError(<<msg, ": ">> \o err.msg)

\* alltransports.ParseImageName of "docker://" and the name: the error, if any
ParseImageName(image) ==
    IF Contains(image, <<":too:many:colons">>)
    THEN NewError(<<"invalid reference format">>)
    ELSE IF Contains(image, <<":latest", "@sha256:digest">>)
    THEN NewError(<<"docker references with both a tag and digest are currently not supported">>)
    ELSE NilError

\* reference.Domain of the parsed name
Hostname(image) ==
    IF \E i \in 1..Len(image) : image[i] = "/"
    THEN SubSeq(image, 1, (CHOOSE i \in 1..Len(image) :
                              image[i] = "/" /\ \A j \in 1..(i - 1) : image[j] /= "/") - 1)
    ELSE <<"docker.io">>

\* a registryAuthConfig pointer: <<>> is nil
AuthRet(config, err) == [config |-> config, err |-> err]
\* the credentials held by a source: the inline data, or the secret of a name
\* in a namespace of the cluster
Credentials(source) == <<[username |-> source, password |-> "pass"]>>

\* getImageAuthConfigFromData: the credentials of an inline secret
getImageAuthConfigFromData(imageRef, secrets) ==
    IF secrets.Data = <<"dockerconfigjson">> THEN AuthRet(Credentials(<<"data">>), NilError)
    ELSE AuthRet(<<>>, NewError(<<"secret type is ", "not supported">>))

\* getImageAuthConfigFromSecret: the credentials of a secret of the cluster
getImageAuthConfigFromSecret(clientConfig, imageRef, secrets, namespace) ==
    IF clientConfig.api = "down"
    THEN AuthRet(<<>>, NewError(<<"dial tcp: ", "connection refused">>))
    ELSE IF <<namespace, secrets.Name>> \notin clientConfig.secrets
    THEN AuthRet(<<>>, NewError(<<"secret", " ", "not found">>))
    ELSE AuthRet(Credentials(<<namespace, secrets.Name>>), NilError)

\* faulty variant of getImageAuthConfigForSignatures: the caller's namespace
\* is preferred to the collector's and a Name is preferred to inline Data
getImageAuthConfigCallerFirst(namespace, clientConfig, signaturesCollector, imageRef) ==
    IF signaturesCollector.ImagePullSecrets = <<>> THEN AuthRet(<<>>, NilError)
    ELSE
    LET secrets == signaturesCollector.ImagePullSecrets[1]
        fromData == getImageAuthConfigFromData(imageRef, secrets)
        collectorNamespace ==
            IF namespace /= "" THEN namespace
            ELSE IF signaturesCollector.Namespace /= "" THEN signaturesCollector.Namespace
            ELSE "default"
        fromSecret ==
            getImageAuthConfigFromSecret(clientConfig, imageRef, secrets, collectorNamespace)
    IN  IF secrets.Name /= ""
        THEN IF ~fromSecret.err.nil
             THEN AuthRet(<<>>, Wrap(fromSecret.err, "failed to get auth from secret"))
             ELSE fromSecret
        ELSE IF secrets.Data /= <<>>
        THEN IF ~fromData.err.nil
             THEN AuthRet(<<>>, Wrap(fromData.err, "failed to get auth from data"))
             ELSE fromData
        ELSE AuthRet(<<>>, NewError(<<"image pull secret spec is not valid">>))

getImageAuthConfigForSignatures(namespace, clientConfig, signaturesCollector, imageRef) ==
    IF signaturesCollector.ImagePullSecrets = <<>> THEN AuthRet(<<>>, NilError)
    ELSE
    LET secrets == signaturesCollector.ImagePullSecrets[1]
        fromData == getImageAuthConfigFromData(imageRef, secrets)
        collectorNamespace ==
            IF signaturesCollector.Namespace /= "" THEN signaturesCollector.Namespace
            ELSE IF namespace /= "" THEN namespace
            ELSE "default"
        fromSecret ==
            getImageAuthConfigFromSecret(clientConfig, imageRef, secrets, collectorNamespace)
    IN  IF secrets.Data /= <<>>
        THEN IF ~fromData.err.nil
             THEN AuthRet(<<>>, Wrap(fromData.err, "failed to get auth from data"))
             ELSE fromData
        ELSE IF secrets.Name /= ""
        THEN IF ~fromSecret.err.nil
             THEN AuthRet(<<>>, Wrap(fromSecret.err, "failed to get auth from secret"))
             ELSE fromSecret
        ELSE AuthRet(<<>>, NewError(<<"image pull secret spec is not valid">>))

\* the texts isAirGappedRegistry looks for
AirGappedPatterns ==
    { <<"localhost", ":">>, <<"127.0.0.1", ":">>, <<"internal-registry">>,
      <<"harbor", ".internal">>, <<"registry", ".internal">>, <<"artifactory", ".internal">>,
      <<".local", ":">>, <<".corp", ":">>, <<".company.com">>, <<"10.">>, <<"192.168.">>,
      <<"172.">> }

isAirGappedRegistry(image) ==
    \/ \E pattern \in AirGappedPatterns : Contains(image, pattern)
    \/ Contains(image, <<".internal">>)
    \/ Contains(image, <<".local">>)
    \/ Contains(image, <<".corp">>)

\* validateRegistryAccess: the error, if any
validateRegistryAccess(image) ==
    LET hostname == Hostname(image)
    IN  IF Contains(hostname, <<"timeout-registry">>)
        THEN NewError(<<"connection ", "timeout">>)
        ELSE IF Contains(hostname, <<"unreachable-registry">>)
        THEN NewError(<<"connection refused">>)
        ELSE IF Contains(hostname, <<"badssl">>) \/ Contains(hostname, <<"invalid-cert">>)
        THEN NewError(<<"certificate", " verify failed">>)
        ELSE NilError

\* the message Collect records for a parse error
parseErrorText(err) ==
    IF Contains(err.msg, <<"invalid reference format">>)
    THEN "invalid image name format"
    ELSE "failed to parse image name"

\* the message Collect records for an error of the credentials
authErrorText(err) ==
    IF Contains(err.msg, <<"connection refused">>)
    THEN "registry authentication failed: unable to connect to Kubernetes API"
    ELSE IF Contains(err.msg, <<"secret">>) /\ Contains(err.msg, <<"not found">>)
    THEN "registry authentication failed: specified secret not found"
    ELSE IF Contains(err.msg, <<"not supported">>)
    THEN "registry authentication failed: invalid secret format"
    ELSE "registry authentication failed"

\* the message Collect records for an error of the registry
registryErrorText(err) ==
    IF Contains(err.msg, <<"timeout">>)
    THEN "registry access failed: connection timeout"
    ELSE IF Contains(err.msg, <<"connection refused">>)
    THEN "registry access failed: connection refused (registry may be down or unreachable)"
    ELSE IF Contains(err.msg, <<"no such host">>)
    THEN "registry access failed: registry hostname not found (check network or air-gapped environment)"
    ELSE IF Contains(err.msg, <<"certificate">>) \/ Contains(err.msg, <<"tls">>)
    THEN "registry access failed: TLS/certificate error (check registry certificate configuration)"
    ELSE "registry access failed"

\* a Signature of the collector
Placeholder(err) == [Verified |-> FALSE, Signature |-> "", Error |-> err]

\* faulty variant of registryFailureEntry: an air-gapped name is not looked at
registryFailureEntryWithoutDowngrade(imageData, image, err) ==
    [imageData EXCEPT !.Error = registryErrorText(err)]

\* faulty variant of registryFailureEntry: the classified error is kept next
\* to the placeholder of an air-gapped name
registryFailureEntryKeepingError(imageData, image, err) ==
    IF isAirGappedRegistry(image)
    THEN [imageData EXCEPT !.Signatures =
             <<Placeholder("signature verification skipped: air-gapped environment detected")>>,
                           !.Error = registryErrorText(err)]
    ELSE [imageData EXCEPT !.Error = registryErrorText(err)]

\* the entry Collect writes when validateRegistryAccess returned err
registryFailureEntry(imageData, image, err) ==
    IF isAirGappedRegistry(image)
    THEN [imageData EXCEPT !.Signatures =
             <<Placeholder("signature verification skipped: air-gapped environment detected")>>]
    ELSE [imageData EXCEPT !.Error = registryErrorText(err)]

\* faulty variant of collectedEntry: the placeholder is written as verified
collectedEntryVerified(imageData, authStatus) ==
    [imageData EXCEPT !.Signatures =
        << [Verified |-> TRUE, Signature |-> "", Error |-> ""] >>]

\* the entry Collect writes for an image it got through
collectedEntry(imageData, authStatus) ==
    [imageData EXCEPT !.Signatures =
        << Placeholder(IF authStatus = "authenticated"
                       THEN "signature collection not yet implemented (auth status: authenticated)"
                       ELSE "signature collection not yet implemented (auth status: no authentication)") >>]

\* the body of the loop of Collect: the entry written for one image
collectImage(c, image) ==
    LET imageData == ImageData(image, <<>>, "")
        parsed == ParseImageName(image)
        auth == getImageAuthConfigForSignatures(c.Namespace, c.ClientConfig, c.Collector, image)
        access == validateRegistryAccess(image)
        authStatus == IF auth.config /= <<>> THEN "authenticated" ELSE "no authentication"
    IN  IF IsBlank(image)
        THEN [imageData EXCEPT !.Error = "empty image name provided"]
        ELSE IF ~parsed.nil
        THEN [imageData EXCEPT !.Error = parseErrorText(parsed)]
        ELSE IF ~auth.err.nil
        THEN [imageData EXCEPT !.Error = authErrorText(auth.err)]
        ELSE IF ~access.nil
        THEN registryFailureEntry(imageData, image, access)
        ELSE collectedEntry(imageData, authStatus)

RECURSIVE collectFrom(_, _, _)
\* the loop of Collect from image i on
collectFrom(c, i, images) ==
    IF i > Len(c.Collector.Images) THEN images
    ELSE collectFrom(c, i + 1, Append(images, collectImage(c, c.Collector.Images[i])))

\* NewResult and CollectorResult.SaveResult with no bundle path
NewResult == [path \in {} |-> Absent]
SaveResult(output, bundlePath, relativePath, data) == (relativePath :> data) @@ output

\* the path of the artifact
ArtifactPath(collectorName) == <<"image-signatures/", collectorName, ".json">>

CollectRet(output, err) == [output |-> output, err |-> err]

\* faulty variant of Collect: the first image that fails ends the batch
CollectAbortingOnFailure(c) ==
    LET images == collectFrom(c, 1, <<>>)
    IN  IF \E i \in 1..Len(images) : images[i].Error /= ""
        THEN CollectRet(NewResult, "failed to collect image signatures")
        ELSE CollectRet(SaveResult(NewResult, c.BundlePath, ArtifactPath("signatures"),
                                   Json(images)), NoErr)

\* faulty variant of Collect: no image is started once the context is done
CollectObservingContext(c) ==
    LET started ==
            IF c.Context.doneAt = 0 THEN c.Collector.Images
            ELSE SubSeq(c.Collector.Images, 1, c.Context.doneAt - 1)
        images == collectFrom([c EXCEPT !.Collector.Images = started], 1, <<>>)
    IN  CollectRet(SaveResult(NewResult, c.BundlePath, ArtifactPath("signatures"),
                              Json(images)), NoErr)

\* CollectImageSignatures.Collect
Collect(c) ==
    LET images == collectFrom(c, 1, <<>>)
        collectorName ==
            IF c.Collector.CollectorName = "" THEN "signatures" ELSE c.Collector.CollectorName
    IN  CollectRet(SaveResult(NewResult, c.BundlePath, ArtifactPath(collectorName),
                              Json(images)), NoErr)

(***************************************************************************)
(* Inputs of the collector.                                                *)
(***************************************************************************)
\* most images in the list of one collector
MaxCollected == 2

NginxImage == <<"nginx", ":latest">>
EmptyImage == <<>>
BlankImage == <<" ">>
MalformedImage == <<"malformed", ":image:name", ":too:many:colons">>
TagAndDigestImage == <<"nginx", ":latest", "@sha256:digest">>
TimeoutImage == <<"timeout-registry", ".example.com", "/", "app">>
UnreachableInternalImage == <<"unreachable-registry", ".internal", "/", "app">>
InternalImage == <<"registry", ".internal", "/", "app">>
BadCertImage == <<"badssl", ".example.com", "/", "app">>
TimeoutPrivateTagImage == <<"timeout-registry", ".example.com", "/", "app", ":", "10.", "2">>

CollectImagePool ==
    { NginxImage, EmptyImage, BlankImage, MalformedImage, TagAndDigestImage, TimeoutImage,
      UnreachableInternalImage, InternalImage, BadCertImage, TimeoutPrivateTagImage }

\* an ImagePullSecrets block
PullSecrets(name, data) == <<[Name |-> name, Data |-> data]>>

PullSecretsPool ==
    { <<>>,
      PullSecrets("", <<"dockerconfigjson">>),
      PullSecrets("regcred", <<"basic-auth">>),
      PullSecrets("regcred", <<>>),
      PullSecrets("absent", <<>>),
      PullSecrets("", <<>>) }

\* the cluster behind the client configuration
ClientConfigs ==
    { [api |-> "up", secrets |-> {<<"default", "regcred">>}],
      [api |-> "down", secrets |-> {<<"default", "regcred">>}] }

\* the caller's context: doneAt = k > 0 says that it is cancelled when the loop
\* of Collect is about to start on image k, doneAt = 0 that it is not cancelled
\* while Collect runs
ContextDoneAt(k) == [doneAt |-> k]

\* the collectors drawn
Collectors ==
    UNION { [ Collector : [ CollectorName : {"", "cosign"},
                            Images : [1..n -> CollectImagePool],
                            Namespace : {""},
                            ImagePullSecrets : PullSecretsPool ],
              BundlePath : {""},
              Namespace : {"default"},
              ClientConfig : ClientConfigs,
              Context : {ContextDoneAt(k) : k \in 0..n} ] : n \in 0..MaxCollected }

\* the arguments of a direct call of getImageAuthConfigForSignatures
AuthNamespaces == {"default", "ops", "team"}

AuthPullSecretsPool == PullSecretsPool \cup {PullSecrets("regcred", <<"dockerconfigjson">>)}

AuthArgs(namespace, clientConfig, collectorNamespace, pullSecrets) ==
    [namespace |-> namespace,
     clientConfig |-> clientConfig,
     signaturesCollector |->
         [CollectorName |-> "", Images |-> <<NginxImage>>, Namespace |-> collectorNamespace,
          ImagePullSecrets |-> pullSecrets],
     imageRef |-> NginxImage]

IdleAuthCall ==
    [args |-> AuthArgs("", [api |-> "up", secrets |-> {}], "", <<>>),
     called |-> FALSE, ret |-> AuthRet(<<>>, NilError)]

IdleCollector ==
    [Collector |-> [CollectorName |-> "", Images |-> <<>>, Namespace |-> "",
                    ImagePullSecrets |-> <<>>],
     BundlePath |-> "", Namespace |-> "", ClientConfig |-> [api |-> "up", secrets |-> {}],
     Context |-> ContextDoneAt(0)]

NotCollected == [called |-> FALSE] @@ CollectRet(NewResult, NoErr)

(***************************************************************************)
(* Two concurrent LoadSpecs calls that are handed the same RawSpecs slice. *)
(*                                                                         *)
(* A Go slice is a view of a backing array: append writes the new element  *)
(* into the array when the array has room behind the slice, and only       *)
(* copies the elements to a new array when it has none.                    *)
(***************************************************************************)
\* most unused elements of the caller's array behind its RawSpecs slice
MaxSpare == 1

\* the two invocations
Invocations == {1, 2}

\* the zero value of an element of the array
ZeroText == <<>>

\* the caller's array with spare unused elements behind the texts
BackingArray(texts, spare) == texts \o [i \in 1..spare |-> ZeroText]

\* an invocation that has not started: opt is the caller's LoadOptions, whose
\* RawSpecs views the first len elements of the caller's array
Invoked(rawSpec, strict, len) ==
    [pc |-> "invoked", RawSpec |-> rawSpec, Strict |-> strict,
     shares |-> TRUE, own |-> <<>>, len |-> len, ret |-> LoadRet(<<>>, NoErr, <<>>)]

\* opt.RawSpecs = append(opt.RawSpecs, opt.RawSpec): the array written, if it
\* is, and the slice opt.RawSpecs is then
appendRawSpec(array, call) ==
    IF call.shares /\ call.len < Len(array)
    THEN [array |-> [array EXCEPT ![call.len + 1] = call.RawSpec],
          call |-> [call EXCEPT !.len = @ + 1, !.pc = "appended"]]
    ELSE [array |-> array,
          call |-> [call EXCEPT !.shares = FALSE,
                                !.own = Append(SubSeq(array, 1, call.len), call.RawSpec),
                                !.len = @ + 1,
                                !.pc = "appended"]]

\* the elements opt.RawSpecs views when loadFromStrings reads them
RawSpecsOf(array, call) ==
    IF call.shares THEN SubSeq(array, 1, call.len) ELSE call.own

IdleRace ==
    [array |-> <<>>, caller |-> <<>>,
     calls |-> [p \in Invocations |-> Invoked(<<>>, FALSE, 0)]]

(***************************************************************************)
(* Inputs of Add.                                                          *)
(***************************************************************************)
\* most entries of one kind in an aggregate Add is called on
MaxEntries == 2

\* most Add calls in one run
MaxAdds == 2

\* the aggregates Add is called on
Aggregates == {"A", "B", "C"}

\* the kind of the entries of a field of TroubleshootKinds
KindOfField(f) == CHOOSE kind \in DOMAIN KindFields : KindFields[kind] = f

\* an aggregate with n entries in each of the given fields; an entry is
\* named after the aggregate it starts in and its index there
Aggregate(owner, fields, n) ==
    [f \in KindFieldNames |->
        IF f \in fields
        THEN [i \in 1..n |-> [kind |-> KindOfField(f),
                                apiVersion |-> Troubleshootv1beta2Kind,
                                name |-> <<owner, i>>]]
        ELSE <<>>]

\* the shapes of the aggregates drawn
AggregatePool(owner) ==
    {NewTroubleshootKinds}
      \cup { Aggregate(owner, fields, n) :
                fields \in {KindFieldNames, {"PreflightsV1Beta2"}}, n \in 1..MaxEntries }

IdleHeap ==
    [objs |-> [o \in Aggregates |-> NewTroubleshootKinds],
     init |-> [o \in Aggregates |-> NewTroubleshootKinds],
     prev |-> [o \in Aggregates |-> NewTroubleshootKinds],
     calls |-> <<>>]

NotTripped == [called |-> FALSE, yaml |-> <<>>, err |-> NoErr, again |-> NotLoaded]

(***************************************************************************)
(* Initial states: one entry point per run, with drawn inputs.             *)
(***************************************************************************)
IdleAnalyze == analyzer = IdleAnalyzer /\ store = IdleStore /\ ret = NotCalled

IdleCompare == cmpIn = IdleCmpIn /\ cmpOut = IdleCmpOut

IdleLoad == opt = IdleOpt /\ loaded = NotLoaded /\ trip = NotTripped

IdleAdd == heap = IdleHeap

IdleCollect == collector = IdleCollector /\ collected = NotCollected

IdleConcurrent == race = IdleRace

IdleAuth == authCall = IdleAuthCall

InitAnalyze ==
    /\ entry = "Analyze"
    /\ analyzer \in [CollectorName : {"", "a"},
                     Strict : {"unset", "true", "false"},
                     Outcomes : OutcomeLists]
    /\ store \in Stores(analyzer.CollectorName)
    /\ ret = NotCalled
    /\ IdleCompare /\ IdleLoad /\ IdleAdd /\ IdleCollect /\ IdleConcurrent /\ IdleAuth

\* an analyzer of one outcome at most that names its collector, over an
\* artifact of entries of every shape
InitAnalyzeFacts ==
    /\ entry = "Analyze"
    /\ analyzer \in [CollectorName : {"a"}, Strict : {"unset"}, Outcomes : ShortOutcomeLists]
    /\ \E l \in FactImageLists :
          store = [files |-> [n \in ArtifactNames |-> IF n = "a" THEN Json(l) ELSE Absent],
                   findErr |-> FALSE]
    /\ ret = NotCalled
    /\ IdleCompare /\ IdleLoad /\ IdleAdd /\ IdleCollect /\ IdleConcurrent /\ IdleAuth

InitCompare ==
    /\ entry = "compareSignatureConditional"
    /\ cmpIn \in CompareInputs
    /\ cmpOut = IdleCmpOut
    /\ IdleAnalyze /\ IdleLoad /\ IdleAdd /\ IdleCollect /\ IdleConcurrent /\ IdleAuth

InitLoad ==
    /\ entry = "LoadSpecs"
    /\ \E n \in 1..MaxDocs :
          \E docs \in Batches(n), cuts \in [1..(n - 1) -> {"sep", "next"}],
             last \in BOOLEAN, strict \in BOOLEAN :
             opt = Options(TextsFrom(docs, cuts, 1, <<>>), last, strict)
    /\ loaded = NotLoaded
    /\ trip = NotTripped
    /\ IdleAnalyze /\ IdleCompare /\ IdleAdd /\ IdleCollect /\ IdleConcurrent /\ IdleAuth

InitAdd ==
    /\ entry = "Add"
    /\ \E a \in AggregatePool("A"), b \in AggregatePool("B"), c \in AggregatePool("C") :
          LET objs == [o \in Aggregates |->
                          IF o = "A" THEN a ELSE IF o = "B" THEN b ELSE c]
          IN  heap = [objs |-> objs, init |-> objs, prev |-> objs, calls |-> <<>>]
    /\ IdleAnalyze /\ IdleCompare /\ IdleLoad /\ IdleCollect /\ IdleConcurrent /\ IdleAuth

InitCollect ==
    /\ entry = "Collect"
    /\ collector \in Collectors
    /\ collected = NotCollected
    /\ IdleAnalyze /\ IdleCompare /\ IdleLoad /\ IdleAdd /\ IdleConcurrent /\ IdleAuth

\* the caller holds a RawSpecs slice of at most one text and hands it to two
\* invocations, each with a RawSpec of its own
InitConcurrent ==
    /\ entry = "ConcurrentLoadSpecs"
    /\ \E texts \in {<<>>, <<DocText(RedactorDoc, 1)>>}, spare \in 0..MaxSpare,
          first \in {SupportBundleDoc, PreflightDoc},
          second \in {SupportBundleDoc, PreflightDoc, LegacyPreflightDoc},
          strict \in BOOLEAN :
          race = [array |-> BackingArray(texts, spare),
                  caller |-> texts,
                  calls |-> (1 :> Invoked(DocText(first, 2), strict, Len(texts)))
                              @@ (2 :> Invoked(DocText(second, 3), strict, Len(texts)))]
    /\ IdleAnalyze /\ IdleCompare /\ IdleLoad /\ IdleAdd /\ IdleCollect /\ IdleAuth

InitAuth ==
    /\ entry = "getImageAuthConfigForSignatures"
    /\ \E namespace \in {"", "ops"}, collectorNamespace \in {"", "team"},
          api \in {"up", "down"}, holders \in SUBSET AuthNamespaces,
          pullSecrets \in AuthPullSecretsPool :
          authCall =
              [IdleAuthCall EXCEPT
                  !.args = AuthArgs(namespace,
                                    [api |-> api,
                                     secrets |-> {<<ns, "regcred">> : ns \in holders}],
                                    collectorNamespace, pullSecrets)]
    /\ IdleAnalyze /\ IdleCompare /\ IdleLoad /\ IdleAdd /\ IdleCollect /\ IdleConcurrent

Init ==
    \/ InitAnalyze \/ InitAnalyzeFacts \/ InitCompare \/ InitLoad \/ InitAdd \/ InitCollect
    \/ InitConcurrent \/ InitAuth

(***************************************************************************)
(* Actions.                                                                *)
(***************************************************************************)
\* AnalyzeImageSignatures.Analyze
Analyze ==
    /\ entry = "Analyze"
    /\ ~ret.called
    /\ \E l \in lookupEvidence(analyzer, store) :
          ret' = [called |-> TRUE, used |-> l]
                    @@ AnalyzeReturn(analyzer, analyzeImageSignatures(analyzer, l))
    /\ UNCHANGED <<authCall, race, entry, analyzer, store, cmpIn, cmpOut, opt, loaded, trip, heap, collector, collected>>

\* a direct call of compareSignatureConditional
Compare ==
    /\ entry = "compareSignatureConditional"
    /\ ~cmpOut.called
    /\ cmpOut' = [called |-> TRUE]
                    @@ compareSignatureConditional(cmpIn.conditional, cmpIn.numSigned,
                                                   cmpIn.numUnsigned, cmpIn.numErrors)
    /\ UNCHANGED <<authCall, race, entry, analyzer, store, ret, cmpIn, opt, loaded, trip, heap, collector, collected>>

\* a call of LoadSpecs
Load ==
    /\ entry = "LoadSpecs"
    /\ ~loaded.called
    /\ loaded' = [called |-> TRUE] @@ LoadSpecs(opt)
    /\ UNCHANGED <<authCall, race, entry, analyzer, store, ret, cmpIn, cmpOut, opt, trip, heap, collector,
                   collected>>

\* ToYaml of the aggregate LoadSpecs returned, and LoadSpecs of its output
RoundTrip ==
    /\ entry = "LoadSpecs"
    /\ loaded.called /\ loaded.err = NoErr
    /\ ~trip.called
    /\ \E strict \in BOOLEAN :
          LET out == ToYaml(loaded.kinds[1])
          IN  trip' = [called |-> TRUE, yaml |-> out.yaml, err |-> out.err,
                       again |-> IF out.err /= NoErr THEN NotLoaded
                                 ELSE [called |-> TRUE]
                                        @@ LoadSpecs([RawSpecs |-> <<>>, RawSpec |-> out.yaml,
                                                      Strict |-> strict])]
    /\ UNCHANGED <<authCall, race, entry, analyzer, store, ret, cmpIn, cmpOut, opt, loaded, heap, collector,
                   collected>>

\* a call recv.Add(other) on two of the aggregates, which may be the same
AddCall ==
    /\ entry = "Add"
    /\ Len(heap.calls) < MaxAdds
    /\ \E recv \in Aggregates, other \in Aggregates :
          heap' = [heap EXCEPT
                      !.objs[recv] = Add(heap.objs[recv], heap.objs[other]),
                      !.prev = heap.objs,
                      !.calls = Append(@, <<recv, other>>)]
    /\ UNCHANGED <<authCall, race, entry, analyzer, store, ret, cmpIn, cmpOut, opt, loaded, trip, collector,
                   collected>>

\* a call of CollectImageSignatures.Collect
CollectCall ==
    /\ entry = "Collect"
    /\ ~collected.called
    /\ collected' = [called |-> TRUE] @@ Collect(collector)
    /\ UNCHANGED <<authCall, race, entry, analyzer, store, ret, cmpIn, cmpOut, opt, loaded, trip, heap,
                   collector>>

\* the first statement of LoadSpecs in one of the two invocations
AppendStep ==
    /\ entry = "ConcurrentLoadSpecs"
    /\ \E p \in Invocations :
          /\ race.calls[p].pc = "invoked"
          /\ LET done == appendRawSpec(race.array, race.calls[p])
             IN  race' = [race EXCEPT !.array = done.array, !.calls[p] = done.call]
    /\ UNCHANGED <<authCall, entry, analyzer, store, ret, cmpIn, cmpOut, opt, loaded, trip,
                   heap, collector, collected>>

\* the rest of LoadSpecs in one of the two invocations
LoadStep ==
    /\ entry = "ConcurrentLoadSpecs"
    /\ \E p \in Invocations :
          /\ race.calls[p].pc = "appended"
          /\ race' = [race EXCEPT
                         !.calls[p].ret =
                             loadFromStrings(race.calls[p].Strict,
                                             RawSpecsOf(race.array, race.calls[p])),
                         !.calls[p].pc = "returned"]
    /\ UNCHANGED <<authCall, entry, analyzer, store, ret, cmpIn, cmpOut, opt, loaded, trip,
                   heap, collector, collected>>

\* a direct call of getImageAuthConfigForSignatures
ResolveAuth ==
    /\ entry = "getImageAuthConfigForSignatures"
    /\ ~authCall.called
    /\ authCall' =
          [authCall EXCEPT
              !.called = TRUE,
              !.ret = getImageAuthConfigForSignatures(authCall.args.namespace,
                                                      authCall.args.clientConfig,
                                                      authCall.args.signaturesCollector,
                                                      authCall.args.imageRef)]
    /\ UNCHANGED <<race, entry, analyzer, store, ret, cmpIn, cmpOut, opt, loaded, trip, heap,
                   collector, collected>>

Next ==
    \/ Analyze \/ Compare \/ Load \/ RoundTrip \/ AddCall \/ CollectCall
    \/ AppendStep \/ LoadStep \/ ResolveAuth

Spec == Init /\ [][Next]_vars


(***************************************************************************)
(* Vocabulary of the properties.                                           *)
(***************************************************************************)
\* Analyze has returned, having found parseable evidence
EvidenceRead ==
    /\ ret.called
    /\ ret.used.findErr = NoErr
    /\ ret.used.err = NoErr
    /\ ret.used.data.tag = "json"

\* Analyze has returned, having found no evidence
NoEvidence ==
    /\ ret.called
    /\ ret.used.findErr = NoErr
    /\ ret.used.err /= NoErr \/ ret.used.data.tag \in {"absent", "empty"}

\* the fact table of the evidence Analyze read
Facts == countFacts(ret.used.data.images)

RuleOf(kind, single) ==
    [kind |-> kind, When |-> single.When, Message |-> single.Message, URI |-> single.URI]

RulesOfOutcome(o) ==
    (IF o.Fail /= <<>> THEN <<RuleOf("fail", o.Fail[1])>> ELSE <<>>)
      \o (IF o.Warn /= <<>> THEN <<RuleOf("warn", o.Warn[1])>> ELSE <<>>)
      \o (IF o.Pass /= <<>> THEN <<RuleOf("pass", o.Pass[1])>> ELSE <<>>)

RECURSIVE RulesOf(_)
\* the rules of an outcome list, in authored order
RulesOf(outcomes) ==
    IF outcomes = <<>> THEN <<>>
    ELSE RulesOfOutcome(Head(outcomes)) \o RulesOf(Tail(outcomes))

Rules == RulesOf(analyzer.Outcomes)

\* the comparator's answer for rule k on the facts read
RuleCmp(k) ==
    compareSignatureConditional(Rules[k].When, Facts.signed, Facts.unsigned, Facts.errors)

RuleMatches(k) == RuleCmp(k).err = NoErr /\ RuleCmp(k).match
RuleRejects(k) == RuleCmp(k).err = NoErr /\ ~RuleCmp(k).match

\* rule k matches and every rule before it was evaluated to a non-match
FirstMatch(k) == RuleMatches(k) /\ \A j \in 1..(k - 1) : RuleRejects(j)

\* evaluation gets as far as rule k
Reached(k) == \A j \in 1..(k - 1) : RuleRejects(j)

OneResult == ret.err = NoErr /\ Len(ret.results) = 1
ErrorOnly == ret.err /= NoErr /\ ret.results = <<>>

KindOf(r) ==
    IF r.IsFail THEN "fail" ELSE IF r.IsWarn THEN "warn" ELSE IF r.IsPass THEN "pass" ELSE "none"

IsVerdictOf(r, rule) ==
    /\ KindOf(r) = rule.kind
    /\ r.Message = rule.Message
    /\ r.URI = rule.URI

Tokens(when) == Fields(when)

HasUnknownField(when) == Len(Tokens(when)) = 3 /\ Tokens(when)[1] \notin KnownFields

Malformed(when) ==
    /\ when /= <<>>
    /\ \/ Len(Tokens(when)) /= 3
       \/ Tokens(when)[2] \notin KnownOps
       \/ \A v \in ValuePool : v.isInt => v.text /= Tokens(when)[3]

IsDefaultPass(r) ==
    /\ r.IsPass /\ ~r.IsWarn /\ ~r.IsFail
    /\ r.Message = [fmt |-> DefaultPassFmt,
                    args |-> <<Facts.signed + Facts.unsigned + Facts.errors,
                               Facts.signed, Facts.unsigned, Facts.errors>>]

AuthoredMessages == {Rules[k].Message : k \in 1..Len(Rules)}

(***************************************************************************)
(* Properties.                                                             *)
(***************************************************************************)
\* C1: with evidence read, the verdict is that of the lowest-index rule whose
\* condition matches (kind, message and URI), whatever the kinds of the rules
\* and whatever follows that rule in the list: later rules are not evaluated,
\* so a malformed later rule raises no error.
C1_FirstMatchWins ==
    EvidenceRead =>
        \A k \in 1..Len(Rules) :
            FirstMatch(k) => OneResult /\ IsVerdictOf(ret.results[1], Rules[k])

\* C1 witness: Fail 'errors > 0' does not match, Pass 'signed > 0' does: Pass.
C1_Witness ==
    /\ EvidenceRead
    /\ analyzer.Outcomes = <<FailErrorsOutcome, PassSignedOutcome>>
    /\ Facts.signed > 0 /\ Facts.errors = 0
    /\ OneResult /\ ret.results[1].IsPass
    /\ ret.results[1].Message = Msg("images are signed")

\* C2 as stated: an outcome list holding a rule with an unknown field makes
\* Analyze return an error and no verdict, wherever the rule stands and
\* whether or not evidence was collected.
C2_Original ==
    (ret.called /\ \E k \in 1..Len(Rules) : HasUnknownField(Rules[k].When)) => ErrorOnly

\* C2 amended: with evidence read, a rule with an unknown field that no
\* matching rule precedes makes Analyze return an error and no verdict; and a
\* list holding such a rule never yields the default pass verdict.
C2_UnknownFieldIsError ==
    EvidenceRead =>
        \A k \in 1..Len(Rules) :
            HasUnknownField(Rules[k].When) =>
                /\ (\A j \in 1..(k - 1) : ~RuleMatches(j)) => ErrorOnly
                /\ ~(OneResult /\ IsDefaultPass(ret.results[1]))

C2_Witness ==
    /\ EvidenceRead
    /\ analyzer.Outcomes = <<FailErrorsOutcome, WarnBogusOutcome>>
    /\ Facts.errors = 0
    /\ ErrorOnly

C4_EmptyMatches ==
    /\ (cmpOut.called /\ cmpIn.conditional = <<>>) => (cmpOut.match /\ cmpOut.err = NoErr)
    /\ EvidenceRead =>
          \A k \in 1..Len(Rules) :
              (Reached(k) /\ Rules[k].When = <<>>) =>
                  OneResult /\ IsVerdictOf(ret.results[1], Rules[k])

C4_Witness ==
    /\ cmpOut.called /\ cmpIn.conditional = <<>>
    /\ cmpIn.numSigned = MaxCount /\ cmpIn.numErrors = MaxCount
    /\ cmpOut.match

\* the integer relation an operator token denotes, actual value on the left
Holds(op, a, v) ==
    IF op \in {OpEq1, OpEq2, OpEq3} THEN a = v
    ELSE IF op \in {OpNe1, OpNe2} THEN a /= v
    ELSE IF op = OpLt THEN a < v
    ELSE IF op = OpLe THEN a <= v
    ELSE IF op = OpGt THEN a > v
    ELSE a >= v

ActualOf(f) ==
    IF f = FieldSigned THEN cmpIn.numSigned
    ELSE IF f = FieldUnsigned THEN cmpIn.numUnsigned
    ELSE cmpIn.numErrors

\* the call compared a known field with an integer under a known operator
WellFormedCall ==
    /\ cmpOut.called
    /\ Len(cmpIn.tokens) = 3
    /\ cmpIn.tokens[1] \in KnownFields
    /\ cmpIn.tokens[2] \in KnownOps
    /\ cmpIn.tokens[3].isInt

\* C5: 'f op v' on a known field, a known operator and an integer v matches
\* exactly when the relation holds between the field's fact and v.
C5_OperatorsCompare ==
    WellFormedCall =>
        /\ cmpOut.err = NoErr
        /\ cmpOut.match <=>
              Holds(cmpIn.tokens[2], ActualOf(cmpIn.tokens[1]), cmpIn.tokens[3].val)

C5_Witness ==
    /\ WellFormedCall
    /\ cmpIn.tokens[1] = FieldUnsigned /\ cmpIn.tokens[2] = OpEq3
    /\ cmpIn.tokens[3].val = 2 /\ cmpIn.numUnsigned = 2
    /\ cmpIn.numSigned /= 2 /\ cmpIn.numErrors /= 2
    /\ cmpOut.match

\* no rule matches and none raises an error
NoRuleMatches == \A k \in 1..Len(Rules) : RuleRejects(k)

DefaultPassWhenNoMatch ==
    (EvidenceRead /\ NoRuleMatches) => (OneResult /\ IsDefaultPass(ret.results[1]))

\* C6 as stated: with evidence read and no rule matching, the verdict is the
\* generated pass summary, and on every other path the message of a verdict
\* is copied from an authored rule.
C6_Original ==
    /\ DefaultPassWhenNoMatch
    /\ (ret.called /\ OneResult /\ ~(EvidenceRead /\ NoRuleMatches)) =>
          ret.results[1].Message \in AuthoredMessages

\* C6 amended: with evidence read and no rule matching, the verdict is the
\* generated pass summary (total = signed + unsigned + errors and the three
\* counts); among the paths on which evidence was read it is the only one
\* whose message is not copied from an authored rule.
C6_DefaultPass ==
    /\ DefaultPassWhenNoMatch
    /\ (EvidenceRead /\ OneResult /\ ~NoRuleMatches) =>
          ret.results[1].Message \in AuthoredMessages

C6_Witness ==
    /\ EvidenceRead
    /\ analyzer.Outcomes = <<FailErrorsOutcome, WarnUnsignedOutcome>>
    /\ Facts.signed > 0
    /\ OneResult /\ IsDefaultPass(ret.results[1])

ExactlyOneFlag(r) ==
    \/ r.IsPass /\ ~r.IsWarn /\ ~r.IsFail
    \/ ~r.IsPass /\ r.IsWarn /\ ~r.IsFail
    \/ ~r.IsPass /\ ~r.IsWarn /\ r.IsFail

\* C7: Analyze returns one result and no error, or no result and an error;
\* a result has exactly one of IsPass, IsWarn, IsFail, and its Strict flag is
\* the analyzer's strict setting, false when unset.
C7_OneVerdict ==
    ret.called =>
        \/ ErrorOnly
        \/ /\ OneResult
           /\ ExactlyOneFlag(ret.results[1])
           /\ ret.results[1].Strict = (analyzer.Strict = "true")

C7_Witness ==
    /\ ret.called /\ OneResult
    /\ analyzer.Strict = "true"
    /\ ret.results[1].Strict
    /\ ret.results[1].IsWarn

TestOutcomes == <<TestPassOutcome, TestFailOutcome>>

\* C8 as stated: with the single-word conditions of the unit test, Analyze
\* over parseable evidence returns one result and no error: the Pass rule's
\* verdict when the image has a verified signature, the Fail rule's verdict
\* when the only image has none.
C8_TestExpectation ==
    (EvidenceRead /\ analyzer.Outcomes = TestOutcomes) =>
        /\ OneResult
        /\ ret.used.data.images = <<SignedImage>> =>
              IsVerdictOf(ret.results[1], RuleOf("pass", TestPassOutcome.Pass[1]))
        /\ ret.used.data.images = <<UnsignedImage>> =>
              IsVerdictOf(ret.results[1], RuleOf("fail", TestFailOutcome.Fail[1]))

\* the outcomes with a Fail entry
FailIndexes == {i \in 1..Len(analyzer.Outcomes) : analyzer.Outcomes[i].Fail /= <<>>}

FirstFailIndex == CHOOSE i \in FailIndexes : \A j \in FailIndexes : i <= j

\* C9: with no evidence, Analyze returns no error and one fail result (never
\* pass or warn) whose message and URI are those of the first outcome with a
\* Fail entry, its condition not evaluated, or the fixed message when there is
\* none; with evidence read, no Fail rule matching and no error, the result
\* is not a fail.
C9_NoDataFails ==
    /\ NoEvidence =>
          /\ OneResult
          /\ KindOf(ret.results[1]) = "fail"
          /\ ExactlyOneFlag(ret.results[1])
          /\ IF FailIndexes = {}
             THEN ret.results[1].Message = NoDataMessage /\ ret.results[1].URI = ""
             ELSE LET f == analyzer.Outcomes[FirstFailIndex].Fail[1]
                  IN  ret.results[1].Message = f.Message /\ ret.results[1].URI = f.URI
    /\ (/\ EvidenceRead
        /\ OneResult
        /\ \A k \in 1..Len(Rules) : Rules[k].kind = "fail" => ~RuleMatches(k)) =>
          ~ret.results[1].IsFail

\* C9 witness: the first Fail entry has a condition that cannot be evaluated
C9_Witness ==
    /\ NoEvidence
    /\ analyzer.Outcomes = <<PassAlwaysOutcome, FailBadOperatorOutcome>>
    /\ OneResult
    /\ ret.results[1].IsFail
    /\ ret.results[1].Message = Msg("bad operator")


\* LoadSpecs returned an aggregate
Loaded == loaded.called /\ loaded.err = NoErr /\ Len(loaded.kinds) = 1

\* the sequence of one kind in the aggregate returned
LoadedSeq(f) == loaded.kinds[1][f]

\* Position p comes before position q in the input: an earlier top-level
\* document (texts in RawSpecs order, RawSpec last, documents of a text in
\* textual order, a payload at its wrapper's position), or an earlier
\* document of the same payload of the same wrapper.
Earlier(p, q) ==
    \/ p[1] < q[1]
    \/ /\ p[1] = q[1]
       /\ p /= q
       /\ (p[2] = q[2] /\ p[3] = q[3]) => p[4] < q[4]

\* C10: in the aggregate LoadSpecs returns, each kind's sequence holds
\* documents of that kind only, in input order.
C10_InputOrder ==
    Loaded =>
        \A kind \in DOMAIN KindFields :
            LET seq == LoadedSeq(KindFields[kind])
            IN  /\ \A i \in 1..Len(seq) : seq[i].kind = kind
                /\ \A i, j \in 1..Len(seq) : i < j => Earlier(seq[i].name, seq[j].name)

\* C10 witness: a preflight of RawSpecs, then the preflights of a wrapper,
\* then the preflight that is RawSpec
C10_Witness ==
    /\ Loaded
    /\ Len(opt.RawSpecs) >= 1 /\ opt.RawSpec /= <<>>
    /\ LET seq == LoadedSeq("PreflightsV1Beta2")
       IN  /\ Len(seq) = 4
           /\ seq[1].name = <<1, "", "", 0>>
           /\ seq[2].name = <<2, "stringData", PreflightKey, 1>>
           /\ seq[3].name = <<2, "stringData", PreflightKey, 3>>
           /\ seq[4].name = <<3, "", "", 0>>
           /\ opt.RawSpec[1].name = <<3, "", "", 0>>

RECURSIVE Flatten(_)
\* the tokens of a sequence of texts, one after the other
Flatten(texts) == IF texts = <<>> THEN <<>> ELSE Head(texts) \o Flatten(Tail(texts))

\* the documents written in the input of the call, in input order
TopLevelDocs ==
    SelectSeq(Flatten(Append(opt.RawSpecs, opt.RawSpec)), LAMBDA t : t.tok = "doc")

TroubleshootVersions == {Troubleshootv1beta2Kind, Troubleshootv1beta1Kind}

\* a document that is a valid specification of one of the eight kinds
WellFormedSpec(d) ==
    /\ d.yaml /\ d.converts /\ d.decodes
    /\ d.apiVersion \in TroubleshootVersions
    /\ d.kind \in DOMAIN KindFields

IsWrapper(d) == d.yaml /\ d.apiVersion = "v1" /\ d.kind \in {"Secret", "ConfigMap"}

\* malformed input: text that is not YAML, a wrapper the decoder rejects, a
\* specification the canonicalizer rejects or the typed decoder rejects
MalformedDoc(d) ==
    \/ ~d.yaml
    \/ IsWrapper(d) /\ ~d.decodes
    \/ /\ d.yaml
       /\ d.apiVersion \in TroubleshootVersions
       /\ \/ ~d.converts
          \/ ~d.decodes
          \/ d.kind \notin DOMAIN KindFields \cup OtherRegisteredKinds

Names(seq) == [i \in 1..Len(seq) |-> seq[i].name]

\* the well-formed documents of one kind among docs, in order
WellFormedOfKind(docs, kind) ==
    SelectSeq(docs, LAMBDA d : WellFormedSpec(d) /\ d.kind = kind)

\* C11: a non-strict LoadSpecs over a batch of well-formed specifications
\* and malformed documents returns no error and an aggregate holding exactly
\* the well-formed documents, in input order.
C11_NonStrictSkips ==
    (/\ loaded.called
     /\ ~opt.Strict
     /\ \A i \in 1..Len(TopLevelDocs) :
            WellFormedSpec(TopLevelDocs[i]) \/ MalformedDoc(TopLevelDocs[i]))
    => /\ Loaded
       /\ \A kind \in DOMAIN KindFields :
             Names(LoadedSeq(KindFields[kind]))
                = Names(WellFormedOfKind(TopLevelDocs, kind))
       /\ KindsLen(loaded.kinds[1])
             = Len(SelectSeq(TopLevelDocs, WellFormedSpec))

\* C11 witness: one malformed document between two well-formed ones gives an
\* aggregate of length 2
C11_Witness ==
    /\ Loaded
    /\ ~opt.Strict
    /\ Len(TopLevelDocs) = 3
    /\ WellFormedSpec(TopLevelDocs[1])
    /\ MalformedDoc(TopLevelDocs[2])
    /\ WellFormedSpec(TopLevelDocs[3])
    /\ KindsLen(loaded.kinds[1]) = 2

\* the documents of the payloads of a wrapper
PayloadDocs(w) ==
    UNION { { w.data[key][i] : i \in 1..Len(w.data[key]) } : key \in DOMAIN w.data }
      \cup UNION { { w.stringData[key][i] : i \in 1..Len(w.stringData[key]) } :
                    key \in DOMAIN w.stringData }

\* every document of the input: those written in the texts and those
\* carried by the wrappers among them
AllDocs ==
    LET top == { TopLevelDocs[i] : i \in 1..Len(TopLevelDocs) }
    IN  top \cup { d \in UNION { PayloadDocs(w) : w \in top } : d.tok = "doc" }

\* a document the classifier rejects: text that is not YAML or a wrapper
\* the decoder rejects
ClassifierRejects(d) == ~d.yaml \/ (IsWrapper(d) /\ ~d.decodes)

\* the indexes of the documents of the input that satisfy P
IndexesOf(P(_)) == {i \in 1..Len(TopLevelDocs) : P(TopLevelDocs[i])}

\* the first document of the input, in input order, that satisfies P
FirstOf(P(_)) ==
    TopLevelDocs[CHOOSE i \in IndexesOf(P) : \A j \in IndexesOf(P) : i <= j]

\* every return is (aggregate, nil) or (nil, error)
AggregateOrError ==
    \/ loaded.err = NoErr /\ Len(loaded.kinds) = 1
    \/ loaded.err /= NoErr /\ loaded.kinds = <<>>

Canonical(d) == [d EXCEPT !.apiVersion = Troubleshootv1beta2Kind]

Classified ==
    classifyFrom(opt.Strict, splitAll(Append(opt.RawSpecs, opt.RawSpec)), 1, <<>>)

\* the documents the classifier handed over
ClassifiedDocs == { Classified.splitdocs[i] : i \in 1..Len(Classified.splitdocs) }

\* a document that is neither a wrapper nor of a troubleshoot version
Foreign(d) == d.yaml /\ ~IsWrapper(d) /\ d.apiVersion \notin TroubleshootVersions

\* the documents under the recognized keys of the maps of a wrapper
RecognizedPayloadDocs(w) ==
    LET keys == {SupportBundleKey, RedactorKey, PreflightKey, PreflightKey2}
        docsOf(map) ==
            UNION { { map[key][i] : i \in 1..Len(map[key]) } : key \in keys \cap DOMAIN map }
    IN  { d \in docsOf(w.data) \cup docsOf(w.stringData) : d.tok = "doc" }

\* C13: of the top-level documents whose header decodes, the classifier takes a v1
\* Secret and a v1 ConfigMap for a wrapper and hands over their payloads, not
\* the wrapper; it hands over unchanged a document of one of the two
\* troubleshoot versions; it drops every other document, and such a document
\* is never the cause of an error, in strict mode as in non-strict mode.
C13_Classifier ==
    loaded.called =>
    /\ Classified.err = NoErr =>
          \A i \in 1..Len(TopLevelDocs) :
             LET d == TopLevelDocs[i]
                 fromHere == { t \in ClassifiedDocs : t /= <<>> /\ t[1].name[1] = d.name[1] }
             IN  /\ (IsWrapper(d) /\ d.decodes) =>
                        fromHere = { <<p>> : p \in RecognizedPayloadDocs(d) }
                 /\ (d.yaml /\ ~IsWrapper(d) /\ d.apiVersion \in TroubleshootVersions) =>
                        fromHere = { <<d>> }
                 /\ Foreign(d) => fromHere = {}
    /\ (\A i \in 1..Len(TopLevelDocs) : Foreign(TopLevelDocs[i])) =>
          /\ Loaded
          /\ IsEmpty(loaded.kinds[1])
    /\ (loaded.err /= NoErr /\ loaded.doc /= <<>>) =>
          ~(Foreign(loaded.doc[1]) /\ loaded.doc[1].name[2] = "")

\* C13 witness: a strict load of a Secret of another group followed by a
\* specification returns the specification alone
C13_Witness ==
    /\ Loaded
    /\ opt.Strict
    /\ Len(TopLevelDocs) = 2
    /\ Foreign(TopLevelDocs[1]) /\ TopLevelDocs[1].kind = "Secret"
    /\ WellFormedSpec(TopLevelDocs[2])
    /\ KindsLen(loaded.kinds[1]) = 1

\* the valid specifications of one kind in the payload under key of a map
ValidUnder(map, key, kind) ==
    IF key \notin DOMAIN map THEN {}
    ELSE { map[key][i] : i \in { j \in 1..Len(map[key]) :
                                    /\ map[key][j].tok = "doc"
                                    /\ WellFormedSpec(map[key][j])
                                    /\ map[key][j].kind = kind } }

\* a wrapper the decoder accepts whose data map holds a valid support-bundle
\* specification under the support-bundle key and a valid redactor
\* specification under the redactor key
CarriesBoth(d) ==
    /\ IsWrapper(d) /\ d.decodes
    /\ ValidUnder(d.data, SupportBundleKey, "SupportBundle") /= {}
    /\ ValidUnder(d.data, RedactorKey, "Redactor") /= {}

NamesIn(seq) == { seq[i].name : i \in 1..Len(seq) }

\* C14: the aggregate of a load of a Secret or ConfigMap whose data map
\* holds a valid support-bundle specification under the support-bundle key
\* and a valid redactor specification under the redactor key holds both.
C14_EveryKey ==
    Loaded =>
    \A i \in 1..Len(TopLevelDocs) :
       CarriesBoth(TopLevelDocs[i]) =>
          LET d == TopLevelDocs[i]
          IN  /\ LoadedSeq("SupportBundlesV1Beta2") /= <<>>
              /\ LoadedSeq("RedactorsV1Beta2") /= <<>>
              /\ \A p \in ValidUnder(d.data, SupportBundleKey, "SupportBundle") :
                    p.name \in NamesIn(LoadedSeq("SupportBundlesV1Beta2"))
              /\ \A p \in ValidUnder(d.data, RedactorKey, "Redactor") :
                    p.name \in NamesIn(LoadedSeq("RedactorsV1Beta2"))

\* C14 witness: the load of one Secret with both keys
C14_Witness ==
    /\ Loaded
    /\ Len(TopLevelDocs) = 1
    /\ TopLevelDocs[1].kind = "Secret"
    /\ CarriesBoth(TopLevelDocs[1])
    /\ Len(LoadedSeq("SupportBundlesV1Beta2")) = 1
    /\ Len(LoadedSeq("RedactorsV1Beta2")) = 1

\* the place of a key in the order support-bundle, redactor, preflight,
\* legacy preflight
KeyRank(key) ==
    CASE key = SupportBundleKey -> 1
      [] key = RedactorKey -> 2
      [] key = PreflightKey -> 3
      [] key = PreflightKey2 -> 4

\* binary data before string data
MapRank(map) == IF map = "data" THEN 1 ELSE 2

\* lexicographic order on triples of numbers
LexLess(a, b) ==
    \/ a[1] < b[1]
    \/ a[1] = b[1] /\ a[2] < b[2]
    \/ a[1] = b[1] /\ a[2] = b[2] /\ a[3] < b[3]

\* entries i < j of a sequence of the aggregate that come from payloads of
\* one Secret
SameSecret(seq, i, j) ==
    /\ i < j
    /\ seq[i].name[2] /= "" /\ seq[j].name[2] /= ""
    /\ seq[i].name[1] = seq[j].name[1]
    /\ \E k \in 1..Len(TopLevelDocs) :
          TopLevelDocs[k].name[1] = seq[i].name[1] /\ TopLevelDocs[k].kind = "Secret"

\* C15 as stated: the payloads of a Secret are extracted key by key, data
\* before stringData under each key.
C15_Original ==
    Loaded =>
    \A f \in KindFieldNames :
       \A i, j \in 1..Len(LoadedSeq(f)) :
          SameSecret(LoadedSeq(f), i, j) =>
             LET p == LoadedSeq(f)[i].name
                 q == LoadedSeq(f)[j].name
             IN  LexLess(<<KeyRank(p[3]), MapRank(p[2]), p[4]>>,
                         <<KeyRank(q[3]), MapRank(q[2]), q[4]>>)

\* C15: the payloads of a Secret are extracted map by map: the four keys of
\* data in the order support-bundle, redactor, preflight, legacy preflight,
\* then the four keys of stringData in the same order.
C15_MapByMap ==
    Loaded =>
    \A f \in KindFieldNames :
       \A i, j \in 1..Len(LoadedSeq(f)) :
          SameSecret(LoadedSeq(f), i, j) =>
             LET p == LoadedSeq(f)[i].name
                 q == LoadedSeq(f)[j].name
             IN  LexLess(<<MapRank(p[2]), KeyRank(p[3]), p[4]>>,
                         <<MapRank(q[2]), KeyRank(q[3]), q[4]>>)

\* C15 witness: of a Secret with the legacy preflight key in data and the
\* current preflight key in stringData, the legacy-key preflight is first
C15_Witness ==
    /\ Loaded
    /\ Len(TopLevelDocs) = 1
    /\ TopLevelDocs[1].kind = "Secret"
    /\ LET seq == LoadedSeq("PreflightsV1Beta2")
       IN  /\ Len(seq) = 2
           /\ seq[1].name = <<1, "data", PreflightKey2, 1>>
           /\ seq[2].name = <<1, "stringData", PreflightKey, 1>>

\* a document of a troubleshoot version that the canonicalizer accepts
Canonicalized(d) == d.yaml /\ d.converts /\ d.apiVersion \in TroubleshootVersions

\* a canonicalized document that the typed decoder decodes to an object of
\* a type outside the eight of TroubleshootKinds
DecodesOutsideEight(d) ==
    Canonicalized(d) /\ d.decodes /\ d.kind \in OtherRegisteredKinds

\* a canonicalized document whose kind the scheme does not know
UnknownKind(d) ==
    Canonicalized(d) /\ d.kind \notin DOMAIN KindFields \cup OtherRegisteredKinds

InvariantErrors == {"unknown troubleshoot kind", "type is not a Secret or ConfigMap"}

InitialConcat(x, y, z) ==
    [f \in KindFieldNames |-> heap.init[x][f] \o heap.init[y][f] \o heap.init[z][f]]

\* C17: for distinct aggregates x, y, z, x.Add(y) followed by x.Add(z)
\* leaves in x, for every kind, the entries of x, then of y, then of z in
\* their original order, and so does y.Add(z) followed by x.Add(y).
C17_AddAssociative ==
    \A x, y, z \in Aggregates :
       (x /= y /\ y /= z /\ x /= z) =>
          /\ heap.calls = << <<x, y>>, <<x, z>> >> => heap.objs[x] = InitialConcat(x, y, z)
          /\ heap.calls = << <<y, z>>, <<x, y>> >> => heap.objs[x] = InitialConcat(x, y, z)

\* C17 witness: B.Add(C) then A.Add(B) on aggregates that all hold
\* preflights
C17_Witness ==
    /\ heap.calls = << <<"B", "C">>, <<"A", "B">> >>
    /\ \A o \in Aggregates : heap.init[o].PreflightsV1Beta2 /= <<>>
    /\ Len(heap.objs["A"].PreflightsV1Beta2)
          = Len(heap.init["A"].PreflightsV1Beta2) + Len(heap.init["B"].PreflightsV1Beta2)
              + Len(heap.init["C"].PreflightsV1Beta2)

RECURSIVE SumOfLengths(_, _)
\* the sum of the lengths of the sequences of an aggregate from field i on
SumOfLengths(kinds, i) ==
    IF i > Len(KindFieldOrder) THEN 0
    ELSE Len(kinds[KindFieldOrder[i]]) + SumOfLengths(kinds, i + 1)

\* seq starts with the entries of old, at the same indexes
Extends(seq, old) == Len(seq) >= Len(old) /\ SubSeq(seq, 1, Len(old)) = old

\* C18: recv.Add(other) makes each sequence of recv its old value followed
\* by that of other, changes no other aggregate (other included, when it is
\* not recv itself) and raises recv.Len() by other.Len(); through any
\* sequence of calls no sequence gets shorter and every entry keeps its
\* index; Len() is the sum of the eight lengths and IsEmpty() is Len() = 0.
C18_AddAppends ==
    /\ \A o \in Aggregates :
          /\ KindsLen(heap.objs[o]) = SumOfLengths(heap.objs[o], 1)
          /\ IsEmpty(heap.objs[o]) <=> SumOfLengths(heap.objs[o], 1) = 0
          /\ \A f \in KindFieldNames :
                /\ Extends(heap.objs[o][f], heap.prev[o][f])
                /\ Extends(heap.objs[o][f], heap.init[o][f])
    /\ heap.calls /= <<>> =>
          LET recv == heap.calls[Len(heap.calls)][1]
              other == heap.calls[Len(heap.calls)][2]
          IN  /\ \A f \in KindFieldNames :
                    heap.objs[recv][f] = heap.prev[recv][f] \o heap.prev[other][f]
              /\ \A o \in Aggregates \ {recv} : heap.objs[o] = heap.prev[o]
              /\ SumOfLengths(heap.objs[recv], 1)
                    = SumOfLengths(heap.prev[recv], 1) + SumOfLengths(heap.prev[other], 1)

\* C18 witness: a second call A.Add(B), where A already holds merged
\* entries and B is not empty
C18_Witness ==
    /\ Len(heap.calls) = 2
    /\ heap.calls[2] = <<"A", "B">>
    /\ ~IsEmpty(heap.prev["B"])
    /\ KindsLen(heap.prev["A"]) > KindsLen(heap.init["A"])
    /\ KindsLen(heap.objs["A"]) = KindsLen(heap.prev["A"]) + KindsLen(heap.prev["B"])
    /\ heap.objs["B"] = heap.prev["B"]

\* the documents of the text ToYaml returned, in textual order
YamlDocs == SelectSeq(trip.yaml, LAMBDA t : t.tok = "doc")

\* the places of the lines of dashes in the text ToYaml returned
DashLines == {i \in 1..Len(trip.yaml) : trip.yaml[i] = Dashes}

\* the names of the entries of an aggregate, kind after kind in the order
\* Analyzer, Collector, HostCollector, HostPreflight, Preflight, Redactor,
\* RemoteCollector, SupportBundle
NamesInKindOrder(kinds) ==
    Names(kinds.AnalyzersV1Beta2) \o Names(kinds.CollectorsV1Beta2)
      \o Names(kinds.HostCollectorsV1Beta2) \o Names(kinds.HostPreflightsV1Beta2)
      \o Names(kinds.PreflightsV1Beta2) \o Names(kinds.RedactorsV1Beta2)
      \o Names(kinds.RemoteCollectorsV1Beta2) \o Names(kinds.SupportBundlesV1Beta2)

InputImages == collector.Collector.Images

\* the artifacts of the result returned
CollectedArtifacts == DOMAIN collected.output

\* the images lists of the artifacts returned
ImagesLists == { collected.output[path].images : path \in CollectedArtifacts }

\* the name of the image is empty
EmptyName(image) == IsBlank(image)

\* the name of the image does not parse
UnparseableName(image) == ~IsBlank(image) /\ ~ParseImageName(image).nil

\* the credentials of the collector do not resolve
AuthFailure ==
    ~getImageAuthConfigForSignatures(collector.Namespace, collector.ClientConfig,
                                     collector.Collector, <<>>).err.nil

\* the registry of the image cannot be reached
RegistryFailure(image) == ~validateRegistryAccess(image).nil

\* the image fails in one of the four ways
Fails(image) ==
    \/ EmptyName(image)
    \/ UnparseableName(image)
    \/ AuthFailure
    \/ RegistryFailure(image)

\* the entry records a failure
RecordsFailure(imageData) ==
    \/ imageData.Error /= ""
    \/ \E k \in 1..Len(imageData.Signatures) :
          imageData.Signatures[k].Error =
              "signature verification skipped: air-gapped environment detected"

\* C20: Collect never aborts the batch because one image fails: it returns a
\* nil error and one artifact whose images list has one entry per input image,
\* in input order, and an entry records a failure exactly when its own image
\* has an empty name, an unparseable name, credentials that do not resolve or
\* a registry that cannot be reached
C20_NeverAborts ==
    collected.called =>
        /\ collected.err = NoErr
        /\ Cardinality(CollectedArtifacts) = 1
        /\ \A images \in ImagesLists :
              /\ Len(images) = Len(InputImages)
              /\ \A i \in 1..Len(images) :
                    /\ images[i].Image = InputImages[i]
                    /\ RecordsFailure(images[i]) <=> Fails(InputImages[i])

\* C20 witness: a batch of two images of which the second has a name that
\* does not parse and the first collects
C20_Witness ==
    /\ collected.called
    /\ Len(InputImages) = 2
    /\ ~Fails(InputImages[1])
    /\ UnparseableName(InputImages[2])
    /\ \A images \in ImagesLists :
          /\ Len(images) = 2
          /\ images[1].Error = "" /\ Len(images[1].Signatures) = 1
          /\ images[2].Error = "invalid image name format"


\* the entries of the artifact returned, in order
Entries == collected.output[CHOOSE path \in CollectedArtifacts : TRUE].images

\* Collect got as far as validating the registry of the image
ValidationReached(image) ==
    ~EmptyName(image) /\ ~UnparseableName(image) /\ ~AuthFailure

\* the classified errors of the registry
RegistryErrors ==
    { "registry access failed: connection timeout",
      "registry access failed: connection refused (registry may be down or unreachable)",
      "registry access failed: registry hostname not found (check network or air-gapped environment)",
      "registry access failed: TLS/certificate error (check registry certificate configuration)",
      "registry access failed" }

SkippedAirGapped == "signature verification skipped: air-gapped environment detected"

\* C21: when the validation of the registry fails for an image whose name
\* matches the air-gapped heuristic, its entry has no image error and exactly
\* one unverified signature with the skip message, and the analyzer counts it
\* as unsigned; when the name does not match, the entry carries the classified
\* registry error and no signature; an image with an air-gapped name that
\* passes the validation gets no image error
C21_AirGappedDowngrade ==
    collected.called =>
        \A i \in 1..Len(InputImages) :
            LET image == InputImages[i]
                imageData == Entries[i]
            IN  ValidationReached(image) =>
                  /\ (RegistryFailure(image) /\ isAirGappedRegistry(image)) =>
                        /\ imageData.Error = ""
                        /\ imageData.Signatures =
                              <<[Verified |-> FALSE, Signature |-> "", Error |-> SkippedAirGapped]>>
                        /\ countFacts(<<imageData>>) =
                              [signed |-> 0, unsigned |-> 1, errors |-> 0]
                  /\ (RegistryFailure(image) /\ ~isAirGappedRegistry(image)) =>
                        /\ imageData.Error \in RegistryErrors
                        /\ imageData.Signatures = <<>>
                        /\ countFacts(<<imageData>>) =
                              [signed |-> 0, unsigned |-> 0, errors |-> 1]
                  /\ (~RegistryFailure(image) /\ isAirGappedRegistry(image)) =>
                        imageData.Error = ""

\* C21 witness: a batch of an unreachable registry with an internal name and
\* a registry that times out with a public name
C21_Witness ==
    /\ collected.called
    /\ InputImages = <<UnreachableInternalImage, TimeoutImage>>
    /\ ~AuthFailure
    /\ Entries[1].Error = "" /\ Len(Entries[1].Signatures) = 1
    /\ Entries[2].Error = "registry access failed: connection timeout"
    /\ countFacts(Entries) = [signed |-> 0, unsigned |-> 1, errors |-> 1]


\* the caller's context is cancelled while Collect works through its list
CancelledDuringCollect == collector.Context.doneAt /= 0

\* Collect has worked on the image of the entry
WorkedOn(imageData) == imageData.Error /= "" \/ imageData.Signatures /= <<>>

\* C22 as stated: when the context is cancelled while Collect is about to
\* start on image k, Collect starts on no further image and returns the
\* entries gathered so far
C22_Original ==
    (collected.called /\ CancelledDuringCollect) =>
        /\ collected.err = NoErr
        /\ Len(Entries) <= collector.Context.doneAt

\* C22: Collect does not look at the context: when it is cancelled while
\* Collect works through its list, Collect still works on every remaining
\* image and returns a nil error and one entry per input image
C22_CancellationIgnored ==
    (collected.called /\ CancelledDuringCollect) =>
        /\ collected.err = NoErr
        /\ Len(Entries) = Len(InputImages)
        /\ \A i \in 1..Len(Entries) :
              /\ Entries[i].Image = InputImages[i]
              /\ WorkedOn(Entries[i])

\* C22 witness: the context is cancelled before the first of two images and
\* both images are collected
C22_Witness ==
    /\ collected.called
    /\ collector.Context.doneAt = 1
    /\ Len(InputImages) = 2
    /\ Len(Entries) = 2
    /\ ~Fails(InputImages[2])
    /\ Len(Entries[2].Signatures) = 1


(***************************************************************************)
(* Determinism of the verdict.                                             *)
(***************************************************************************)
\* what Analyze returns when the evidence it reads is the given artifact
ReturnOn(data, err) ==
    AnalyzeReturn(analyzer, analyzeImageSignatures(analyzer, Lookup(data, err, NoErr)))

\* what a run of Analyze on this store and this analyzer can return
Runs ==
    { AnalyzeReturn(analyzer, analyzeImageSignatures(analyzer, l)) :
        l \in lookupEvidence(analyzer, store) }

\* the artifacts that match image-signatures/*.json
Matching == {n \in ArtifactNames : store.files[n].tag /= "absent"}

\* what Analyze returned
Returned == [results |-> ret.results, err |-> ret.err]

\* C23 as stated: two runs of Analyze with the same stored artifacts and the
\* same analyzer return the same verdict, also when the analyzer declares no
\* collector name and several artifacts match
C23_Original ==
    ret.called => \A r \in Runs : r = Returned

\* C23: with a collector name the verdict is that of the artifact of this
\* name, whatever else is stored; without one and with findFiles succeeding
\* it is the verdict of one of the matching artifacts, so it is determined
\* when at most one artifact matches or all matching artifacts have the same
\* content
C23_DeterministicWhenOneArtifact ==
    ret.called =>
        /\ analyzer.CollectorName /= "" =>
              Returned = ReturnOn(getFile(store, analyzer.CollectorName).data,
                                  getFile(store, analyzer.CollectorName).err)
        /\ (analyzer.CollectorName = "" /\ ~store.findErr /\ Matching /= {}) =>
              \E n \in Matching : Returned = ReturnOn(store.files[n], NoErr)
        /\ (analyzer.CollectorName = "" /\ ~store.findErr /\ Matching = {}) =>
              Returned = ReturnOn(Absent, NoErr)
        /\ (\/ analyzer.CollectorName /= ""
            \/ store.findErr
            \/ Cardinality({store.files[n] : n \in Matching}) <= 1) =>
              \A r \in Runs : r = Returned

\* C23 witness: an analyzer without collector name, two artifacts of different
\* content, and a run that returns a verdict of another kind than the one
\* returned
C23_Witness ==
    /\ ret.called
    /\ analyzer.CollectorName = ""
    /\ ~store.findErr
    /\ Cardinality({store.files[n] : n \in Matching}) = 2
    /\ ret.err = NoErr
    /\ \E r \in Runs :
          /\ r.err = NoErr
          /\ KindOf(r.results[1]) /= KindOf(ret.results[1])


(***************************************************************************)
(* Independence of concurrent LoadSpecs invocations.                       *)
(***************************************************************************)
\* what the invocation returns when it runs alone on the caller's list
Alone(p) ==
    LoadSpecs([RawSpecs |-> race.caller, RawSpec |-> race.calls[p].RawSpec,
               Strict |-> race.calls[p].Strict])

\* every invocation that has returned has returned what it returns alone
ReturnsAsAlone ==
    \A p \in Invocations : race.calls[p].pc = "returned" => race.calls[p].ret = Alone(p)

\* the caller's array holds what it held before the invocations
CallerArrayUntouched ==
    race.array = BackingArray(race.caller, Len(race.array) - Len(race.caller))

\* C24 as stated: concurrent LoadSpecs invocations are independent: each
\* returns the aggregate it returns when run alone, and none writes into the
\* backing storage of the caller's RawSpecs list, also when the list has
\* spare capacity and is shared by two calls with different RawSpec values
C24_Independent ==
    entry = "ConcurrentLoadSpecs" => (ReturnsAsAlone /\ CallerArrayUntouched)


(***************************************************************************)
(* Precedence of the sources of credentials.                               *)
(***************************************************************************)
\* the image-pull-secret block of the call, when there is one
Block == authCall.args.signaturesCollector.ImagePullSecrets[1]

HasBlock == authCall.args.signaturesCollector.ImagePullSecrets /= <<>>

\* the namespace a named secret is looked up in
LookupNamespace ==
    IF authCall.args.signaturesCollector.Namespace /= ""
    THEN authCall.args.signaturesCollector.Namespace
    ELSE IF authCall.args.namespace /= "" THEN authCall.args.namespace
    ELSE "default"

\* the named secret can be read
SecretReadable ==
    /\ authCall.args.clientConfig.api = "up"
    /\ <<LookupNamespace, Block.Name>> \in authCall.args.clientConfig.secrets

\* the call returned these credentials and no error
Resolved(source) ==
    /\ authCall.ret.err.nil
    /\ authCall.ret.config = <<[username |-> source, password |-> "pass"]>>

\* the call returned an error and no credentials
Refused == ~authCall.ret.err.nil /\ authCall.ret.config = <<>>

\* C25: credentials resolve by a fixed precedence: without a block, no
\* credentials and no error; inline Data, when not nil, is used whatever the
\* Name; else a Name is looked up in the collector's namespace, else the
\* caller's, else "default"; a block with neither is an error; a failure of
\* the chosen source is an error and never empty credentials
C25_AuthPrecedence ==
    authCall.called =>
        /\ ~HasBlock => (authCall.ret.err.nil /\ authCall.ret.config = <<>>)
        /\ (HasBlock /\ Block.Data /= <<>>) =>
              IF Block.Data = <<"dockerconfigjson">> THEN Resolved(<<"data">>) ELSE Refused
        /\ (HasBlock /\ Block.Data = <<>> /\ Block.Name /= "") =>
              IF SecretReadable THEN Resolved(<<LookupNamespace, Block.Name>>) ELSE Refused
        /\ (HasBlock /\ Block.Data = <<>> /\ Block.Name = "") => Refused

\* C25 witness: a block with a Name and no Data, a collector with a namespace
\* of its own, a caller's namespace that differs, and a cluster that holds the
\* secret in both and in "default": the collector's namespace is used
C25_Witness ==
    /\ authCall.called
    /\ HasBlock
    /\ Block.Data = <<>> /\ Block.Name = "regcred"
    /\ authCall.args.signaturesCollector.Namespace = "team"
    /\ authCall.args.namespace = "ops"
    /\ authCall.args.clientConfig.api = "up"
    /\ Cardinality(authCall.args.clientConfig.secrets) = 3
    /\ Resolved(<<"team", "regcred">>)


(***************************************************************************)
(* A key present in both maps of a Secret.                                 *)
(***************************************************************************)
RecognizedKeys == {SupportBundleKey, RedactorKey, PreflightKey, PreflightKey2}

\* the recognized keys present in both maps of the wrapper
KeysInBothMaps(d) == RecognizedKeys \cap DOMAIN d.data \cap DOMAIN d.stringData

\* the place of the document of this name in the sequence, 0 when it is absent
PlaceOf(seq, name) ==
    IF \E a \in 1..Len(seq) : seq[a].name = name
    THEN CHOOSE a \in 1..Len(seq) : seq[a].name = name
    ELSE 0

\* C26: when a recognized key is present in both the data map and the
\* stringData map of a Secret, the valid documents of both values are loaded,
\* and those of the data value precede those of the stringData value of that
\* key in the sequence of their kind
C26_BothMapsCollected ==
    Loaded =>
    \A i \in 1..Len(TopLevelDocs) :
       LET d == TopLevelDocs[i]
       IN  (IsWrapper(d) /\ d.decodes /\ d.kind = "Secret") =>
           \A key \in KeysInBothMaps(d), kind \in DOMAIN KindFields :
              LET seq == LoadedSeq(KindFields[kind])
                  binary == ValidUnder(d.data, key, kind)
                  string == ValidUnder(d.stringData, key, kind)
              IN  /\ \A p \in binary \cup string : PlaceOf(seq, p.name) /= 0
                  /\ \A p \in binary, q \in string :
                        PlaceOf(seq, p.name) < PlaceOf(seq, q.name)

\* C26 witness: the load of one Secret with the preflight key in both maps,
\* one document under data and two under stringData
C26_Witness ==
    /\ Loaded
    /\ Len(TopLevelDocs) = 1
    /\ TopLevelDocs[1].kind = "Secret"
    /\ KeysInBothMaps(TopLevelDocs[1]) = {PreflightKey}
    /\ Names(LoadedSeq("PreflightsV1Beta2"))
          = << <<1, "data", PreflightKey, 1>>,
               <<1, "stringData", PreflightKey, 1>>,
               <<1, "stringData", PreflightKey, 3>> >>


(***************************************************************************)
(* Documents extracted from a wrapper.                                     *)
(***************************************************************************)
\* the wrappers of the input that the decoder accepts
Wrappers ==
    { TopLevelDocs[i] : i \in { j \in 1..Len(TopLevelDocs) :
                                   IsWrapper(TopLevelDocs[j]) /\ TopLevelDocs[j].decodes } }

\* the documents extracted from the wrappers of the input
Extracted == UNION { RecognizedPayloadDocs(w) : w \in Wrappers }

\* a document the classifier would skip were it written at the top level
ForeignOrWrapper(d) == Foreign(d) \/ (IsWrapper(d) /\ d.decodes)

\* the names of the documents of the aggregate returned
LoadedNames == UNION { NamesIn(LoadedSeq(f)) : f \in KindFieldNames }

FailurePolicyErrors ==
    {"failed to convert doc to troubleshoot.sh/v1beta2 kind", "failed to decode"}

\* C27: the documents extracted from a wrapper bypass the classifier: each is
\* handed to canonicalization and typed decoding whatever its kind and
\* version; a foreign document or a wrapper among them is never loaded and
\* never unwrapped, is skipped in non-strict mode like a malformed document
\* and makes a strict load fail; an extracted document of a registered type
\* outside the eight makes the load fail in both modes
C27_PayloadsBypassClassifier ==
    loaded.called =>
    LET classified == Classified
        handed == { classified.splitdocs[i] : i \in 1..Len(classified.splitdocs) }
        extracted == Extracted
        names == LoadedNames
    IN  classified.err = NoErr =>
        /\ \A p \in extracted : <<p>> \in handed
        /\ Loaded =>
              /\ \A p \in extracted : p.name \in names <=> WellFormedSpec(p)
              /\ \A name \in names : name[2] /= "nested"
        /\ (opt.Strict /\ \E p \in extracted : ForeignOrWrapper(p)) =>
              loaded.err \in FailurePolicyErrors \cup {"unknown troubleshoot kind"}
        /\ (~opt.Strict /\ \E p \in extracted : DecodesOutsideEight(p)) =>
              loaded.err = "unknown troubleshoot kind"
        /\ (/\ ~opt.Strict
            /\ \A i \in 1..Len(TopLevelDocs) : ~DecodesOutsideEight(TopLevelDocs[i])
            /\ \A p \in extracted : ~DecodesOutsideEight(p)) => Loaded

\* C27 witness: a strict load of one ConfigMap whose first payload document
\* is a Deployment fails on the conversion of that document
C27_Witness ==
    /\ loaded.called
    /\ opt.Strict
    /\ Len(TopLevelDocs) = 1
    /\ TopLevelDocs[1].kind = "ConfigMap"
    /\ \E p \in Extracted : Foreign(p)
    /\ \E p \in Extracted : IsWrapper(p)
    /\ loaded.err = "failed to convert doc to troubleshoot.sh/v1beta2 kind"
    /\ Len(loaded.doc) = 1
    /\ loaded.doc[1].kind = "Deployment"
    /\ loaded.doc[1].name = <<1, "data", SupportBundleKey, 1>>

\* a non-strict load of the same ConfigMap skips the Deployment and the
\* Secret and loads the specification
C27_WitnessNonStrict ==
    /\ Loaded
    /\ ~opt.Strict
    /\ Len(TopLevelDocs) = 1
    /\ \E p \in Extracted : Foreign(p)
    /\ \E p \in Extracted : IsWrapper(p)
    /\ LoadedNames = {<<1, "data", SupportBundleKey, 3>>}


(***************************************************************************)
(* The fact table.                                                         *)
(***************************************************************************)
\* the entries of the evidence Analyze read
EvidenceImages == ret.used.data.images

\* the entries with an image error
WithError == {i \in 1..Len(EvidenceImages) : EvidenceImages[i].Error /= ""}

\* the entries without image error that have a verified signature without
\* signature error
WithValidSignature ==
    {i \in 1..Len(EvidenceImages) :
        /\ EvidenceImages[i].Error = ""
        /\ \E k \in 1..Len(EvidenceImages[i].Signatures) :
              /\ EvidenceImages[i].Signatures[k].Verified
              /\ EvidenceImages[i].Signatures[k].Error = ""}

\* every other entry
Remaining == (1..Len(EvidenceImages)) \ (WithError \cup WithValidSignature)

\* C28: the fact table partitions the entries: errors counts the entries with
\* an image error whatever their signatures, signed those of the others with
\* a verified signature without signature error, unsigned the rest, so the
\* three add up to the number of entries; the rules are evaluated on these
\* three counts and the generated summary reports them
C28_FactsPartition ==
    EvidenceRead =>
        /\ Facts = [signed |-> Cardinality(WithValidSignature),
                    unsigned |-> Cardinality(Remaining),
                    errors |-> Cardinality(WithError)]
        /\ Facts.signed + Facts.unsigned + Facts.errors = Len(EvidenceImages)
        /\ Returned =
              AnalyzeReturn(analyzer,
                            evaluateSignatureOutcomes(analyzer.Outcomes,
                                                      Cardinality(WithValidSignature),
                                                      Cardinality(Remaining),
                                                      Cardinality(WithError)))
        /\ (OneResult /\ ret.results[1].Message.fmt = DefaultPassFmt) =>
              ret.results[1].Message.args =
                  <<Len(EvidenceImages), Cardinality(WithValidSignature),
                    Cardinality(Remaining), Cardinality(WithError)>>

\* C28 witness: an entry with an image error and a verified signature, an
\* entry whose verified signature has an error, and the summary 2, 0, 1, 1
C28_Witness ==
    /\ EvidenceRead
    /\ EvidenceImages = <<ErrorWithVerifiedImage, VerifiedWithErrorImage>>
    /\ analyzer.Outcomes = <<>>
    /\ OneResult
    /\ ret.results[1].Message = [fmt |-> DefaultPassFmt, args |-> <<2, 0, 1, 1>>]


(***************************************************************************)
(* The shape of the entries Collect writes.                                *)
(***************************************************************************)
\* the entry has an image error or a signature, and not both
ErrorXorSignature(imageData) ==
    (imageData.Error /= "") /= (Len(imageData.Signatures) >= 1)

\* Collect got through the image
GotThrough(image) == ~Fails(image)

\* the messages of the placeholder of an image Collect got through
NotYetImplemented ==
    { "signature collection not yet implemented (auth status: authenticated)",
      "signature collection not yet implemented (auth status: no authentication)" }

\* the entry is the image and its one unverified signature of this message
OnePlaceholder(imageData, message) ==
    /\ imageData.Error = ""
    /\ imageData.Signatures = <<[Verified |-> FALSE, Signature |-> "", Error |-> message]>>

\* the branches that fail set the image error only, or on the air-gapped
\* branch the one placeholder only
FailureBranches(image, imageData) ==
    Fails(image) =>
        IF ValidationReached(image) /\ isAirGappedRegistry(image)
        THEN OnePlaceholder(imageData, SkippedAirGapped)
        ELSE imageData.Error /= "" /\ imageData.Signatures = <<>>

CollectedFacts == countFacts(Entries)

\* what the analyzer of the one rule Pass when 'signed > 0' returns on the
\* artifact Collect returned
SignedRuleOnCollected ==
    evaluateSignatureOutcomes(<<PassSignedOutcome>>, CollectedFacts.signed,
                              CollectedFacts.unsigned, CollectedFacts.errors)

\* C30: every signature entry Collect writes has Verified = false, so on the
\* artifact Collect returned the analyzer counts no image as signed and every
\* image as unsigned or errors, the condition 'signed > 0' does not match,
\* and the analyzer of the one rule Pass when 'signed > 0' falls through to
\* the generated summary
C30_NeverSigned ==
    collected.called =>
        /\ \A i \in 1..Len(Entries) :
              \A k \in 1..Len(Entries[i].Signatures) : ~Entries[i].Signatures[k].Verified
        /\ CollectedFacts.signed = 0
        /\ CollectedFacts.unsigned + CollectedFacts.errors = Len(InputImages)
        /\ compareSignatureConditional(CondSignedGt0, CollectedFacts.signed,
                                       CollectedFacts.unsigned, CollectedFacts.errors)
              = CmpRet(FALSE, NoErr)
        /\ SignedRuleOnCollected.err = NoErr
        /\ SignedRuleOnCollected.result[1].Message =
              [fmt |-> DefaultPassFmt,
               args |-> <<Len(InputImages), 0, CollectedFacts.unsigned, CollectedFacts.errors>>]

\* C30 witness: a batch of an image Collect gets through and of a registry
\* that times out: one unsigned, one error, none signed
C30_Witness ==
    /\ collected.called
    /\ InputImages = <<NginxImage, TimeoutImage>>
    /\ ~AuthFailure
    /\ Len(Entries[1].Signatures) = 1
    /\ ~Entries[1].Signatures[1].Verified
    /\ CollectedFacts = [signed |-> 0, unsigned |-> 1, errors |-> 1]
    /\ SignedRuleOnCollected.result[1].Message.fmt = DefaultPassFmt

============================================================================
